---- MODULE Spec2Model ----
(***************************************************************************)
(* NoC placement cost engine (NocCostHandler) of vpr/src/place/            *)
(* noc_place_utils.cpp: per-flow routes, per-link bandwidth usage, the     *)
(* committed and proposed cost caches, and the delta / commit / revert     *)
(* transaction driven by the annealer.                                     *)
(*                                                                         *)
(* Numbers are exact integers.  Bandwidths, priorities and latencies of    *)
(* the fixture are integers; a link congestion cost, a fraction            *)
(* max(0, usage - bw) / bw in the source, is held as the integer number of *)
(* 1/CongestionDenominator units it equals (every link bandwidth of the    *)
(* fixture divides CongestionDenominator, so the division is exact).       *)
(* Floating-point rounding is not modelled.                                *)
(***************************************************************************)
EXTENDS Integers, Sequences, FiniteSets, TLC

VARIABLES
    block_locs,                     \* block_locs_ref: cluster -> grid location
    blocks_affected,                \* moved_blocks of the move in flight
    noc_routing_algorithm,          \* the routing collaborator in use
    detailed_link_latency,          \* NocStorage flags
    detailed_router_latency,
    traffic_flow_routes,
    traffic_flow_routes_backup,
    traffic_flow_costs,
    proposed_traffic_flow_costs,
    link_bandwidth_usages,
    link_congestion_costs,
    proposed_link_congestion_costs,
    affected_traffic_flows,         \* std::vector, in push_back order
    affected_noc_links,             \* std::unordered_set
    updated_traffic_flows,          \* local set of evaluate / revert
    todo,                           \* flow iterations the running loop still has to make
    half_done,                      \* TRUE between the decrement and the increment of one flow
    costs,                          \* the caller's running totals (t_placer_costs.noc_cost_terms)
    delta_c,                        \* the caller's delta terms
    phase,                          \* position of the annealer / handler
    num_moves,                      \* moves the annealer has proposed so far
    num_swap_rejected,              \* moves the annealer has rejected so far
    saved_routes,                   \* the caller's copy of the routes taken before the move
    saved_usages,                   \* the caller's copy of the usages taken before the move
    first_delta_c,                  \* the delta terms of the previous evaluate call
    reinit_seed,                    \* the caller's copy of the routes it last handed to reinitialize_noc_routing
    diagnostics,                    \* messages recompute_costs_from_scratch has raised
    is_fixed,                       \* t_block_loc::is_fixed of every cluster block
    router_clusters,                \* get_router_clusters_in_netlist(), in netlist order
    congested_links,                \* argument and result of the last get_top_n_congested_links
    proposal,                       \* outcome of the last propose_router_swap
    router_swap,                    \* outcome of the last check_for_router_swap
    noc_cost_norm_factors,          \* the caller's t_placer_costs.noc_cost_norm_factors
    has_cycle,                      \* outcome of the last noc_routing_has_cycle
    noc_placement_file,             \* what write_noc_placement_file has written
    noc_cost_check,                 \* outcome of the last check_noc_placement_costs
    latency_cons_met,               \* result of the last get_number_of_traffic_flows_with_latency_cons_met
    tree,                           \* ParallelNetlistRouter::_tree, once built
    router_pc,                      \* position of the thread that called route_netlist
    task_group,                     \* nodes whose task has been handed to the task group and not started
    thread_task,                    \* what each thread is running
    results_th,                     \* _results_th: RouteIterResults of each thread
    spawned,                        \* nodes route_partition_tree_node has been called for in this call
    route_net_log,                  \* the flags route_net has returned for each net in this call
    route_iter_results,             \* what route_netlist has returned
    flow_reroute_links              \* arguments and result of a call of find_affected_links_by_flow_reroute on its own

vars == << block_locs, blocks_affected, noc_routing_algorithm, detailed_link_latency,
           detailed_router_latency, traffic_flow_routes, traffic_flow_routes_backup,
           traffic_flow_costs, proposed_traffic_flow_costs, link_bandwidth_usages,
           link_congestion_costs, proposed_link_congestion_costs, affected_traffic_flows,
           affected_noc_links, updated_traffic_flows, todo, half_done, costs, delta_c,
           phase, num_moves, num_swap_rejected, saved_routes, saved_usages, first_delta_c,
           reinit_seed, diagnostics, is_fixed, router_clusters, congested_links, proposal,
           router_swap, noc_cost_norm_factors, has_cycle, noc_placement_file,
           noc_cost_check, latency_cons_met, tree, router_pc, task_group, thread_task,
           results_th, spawned, route_net_log, route_iter_results, flow_reroute_links >>

\* the state of the ParallelNetlistRouter
netlist_router_vars == << tree, router_pc, task_group, thread_task, results_th, spawned,
                         route_net_log, route_iter_results >>

NetlistRouterUnchanged == UNCHANGED netlist_router_vars

-----------------------------------------------------------------------------
(* Bounds of the model *)

\* longest moved_blocks list the annealer hands over (a swap lists two blocks;
\* longer lists name a block again)
MaxMovedBlocks == 3

\* number of moves the annealer proposes in one run
MaxMoves == 2

\* longest route handed to find_affected_links_by_flow_reroute on its own
MaxRouteLinks == 3

-----------------------------------------------------------------------------
(* The NoC model: four routers on a 2x2 grid joined in a ring, one link per *)
(* direction between neighbours.                                            *)

NocRouterIds == 0 .. 3
NocLinkIds == 0 .. 7
RingSize == Cardinality(NocRouterIds)

\* links 0..3 run clockwise (i -> i+1), links 4..7 counter-clockwise (i+1 -> i)
get_source_router(l) == IF l < RingSize THEN l ELSE (l - RingSize + 1) % RingSize
get_sink_router(l) == IF l < RingSize THEN (l + 1) % RingSize ELSE l - RingSize

get_bandwidth(l) == IF l < RingSize THEN 10 ELSE 5
get_latency(l) == IF l < RingSize THEN 2 ELSE 3
get_router_latency(r) == 1 + (r % 2)
get_noc_link_latency == get_latency(0)
get_noc_router_latency == get_router_latency(0)

\* every link bandwidth divides it
CongestionDenominator == get_bandwidth(0)

\* grid locations <<x, y, layer>>
RouterTiles == { <<0, 0, 0>>, <<1, 0, 0>>, <<1, 1, 0>>, <<0, 1, 0>> }
LogicTiles == { <<2, 0, 0>>, <<2, 1, 0>> }

get_router_at_grid_location(loc) ==
    CASE loc = <<0, 0, 0>> -> 0
      [] loc = <<1, 0, 0>> -> 1
      [] loc = <<1, 1, 0>> -> 2
      [] loc = <<0, 1, 0>> -> 3

-----------------------------------------------------------------------------
(* The netlist: three router clusters, one logic block, three traffic flows *)

RouterClusters == 0 .. 2
ClusterBlockIds == 0 .. 3
NocTrafficFlowIds == 0 .. 2

noc_traffic_flows ==
    [f \in NocTrafficFlowIds |->
        CASE f = 0 -> [source_router_cluster_id |-> 0, sink_router_cluster_id |-> 1,
                       traffic_flow_bandwidth |-> 6, traffic_flow_priority |-> 1,
                       max_traffic_flow_latency |-> 6]
          [] f = 1 -> [source_router_cluster_id |-> 1, sink_router_cluster_id |-> 2,
                       traffic_flow_bandwidth |-> 6, traffic_flow_priority |-> 2,
                       max_traffic_flow_latency |-> 4]
          [] f = 2 -> [source_router_cluster_id |-> 2, sink_router_cluster_id |-> 0,
                       traffic_flow_bandwidth |-> 3, traffic_flow_priority |-> 1,
                       max_traffic_flow_latency |-> 10]]

get_single_noc_traffic_flow(f) == noc_traffic_flows[f]

RECURSIVE FlowsOf(_, _)
FlowsOf(blk, f) ==
    IF f \notin NocTrafficFlowIds THEN << >>
    ELSE (IF blk \in { noc_traffic_flows[f].source_router_cluster_id,
                       noc_traffic_flows[f].sink_router_cluster_id }
          THEN << f >> ELSE << >>) \o FlowsOf(blk, f + 1)

\* flows a router cluster takes part in, in flow-id order
get_traffic_flows_associated_to_router_block(blk) == FlowsOf(blk, 0)

check_if_cluster_block_has_traffic_flows(blk) ==
    get_traffic_flows_associated_to_router_block(blk) /= << >>

-----------------------------------------------------------------------------
(* The routing collaborator: deterministic, loop-free *)

RoutingAlgorithms == { "clockwise", "minimal" }

RECURSIVE WalkRing(_, _, _)
WalkRing(src, dst, clockwise) ==
    IF src = dst THEN << >>
    ELSE IF clockwise
         THEN << src >> \o WalkRing((src + 1) % RingSize, dst, clockwise)
         ELSE << RingSize + ((src + RingSize - 1) % RingSize) >>
                  \o WalkRing((src + RingSize - 1) % RingSize, dst, clockwise)

route_flow(src, dst, algorithm) ==
    IF algorithm = "clockwise"
    THEN WalkRing(src, dst, TRUE)
    ELSE WalkRing(src, dst, 2 * ((dst - src + RingSize) % RingSize) <= RingSize)

-----------------------------------------------------------------------------
(* Cost kernels *)

Max(a, b) == IF a > b THEN a ELSE b

INVALID_NOC_COST_TERM == -1

InvalidFlowCost ==
    [aggregate_bandwidth |-> INVALID_NOC_COST_TERM,
     latency |-> INVALID_NOC_COST_TERM,
     latency_overrun |-> INVALID_NOC_COST_TERM]

ZeroCostTerms ==
    [aggregate_bandwidth |-> 0, latency |-> 0, latency_overrun |-> 0, congestion |-> 0]

\* variant: the aggregate bandwidth counts the routers of the route instead
\* of its links
calculate_traffic_flow_aggregate_bandwidth_cost_per_router(route, flow) ==
    flow.traffic_flow_priority * flow.traffic_flow_bandwidth * (Len(route) + 1)

calculate_traffic_flow_aggregate_bandwidth_cost(route, flow) ==
    flow.traffic_flow_priority * flow.traffic_flow_bandwidth * Len(route)

RECURSIVE SumLinkLatency(_)
SumLinkLatency(route) ==
    IF route = << >> THEN 0 ELSE get_latency(Head(route)) + SumLinkLatency(Tail(route))

RECURSIVE SumSinkRouterLatency(_)
SumSinkRouterLatency(route) ==
    IF route = << >> THEN 0
    ELSE get_router_latency(get_sink_router(Head(route))) + SumSinkRouterLatency(Tail(route))

\* variant: the latency is scaled by the priority before the overrun is taken,
\* so the priority enters the overrun twice
calculate_traffic_flow_latency_cost_weighted_overrun(route, flow) ==
    LET noc_link_latency_component ==
            IF detailed_link_latency
            THEN SumLinkLatency(route)
            ELSE get_noc_link_latency * Len(route)
        noc_router_latency_component ==
            IF detailed_router_latency
            THEN get_router_latency(get_source_router(route[1])) + SumSinkRouterLatency(route)
            ELSE get_noc_router_latency * (Len(route) + 1)
        latency == (noc_router_latency_component + noc_link_latency_component)
                       * flow.traffic_flow_priority
        latency_overrun == Max(latency - flow.max_traffic_flow_latency, 0)
    IN  << latency, latency_overrun * flow.traffic_flow_priority >>

\* variant: the coarse router component counts as many routers as links
calculate_traffic_flow_latency_cost_router_per_link(route, flow) ==
    LET noc_link_latency_component ==
            IF detailed_link_latency
            THEN SumLinkLatency(route)
            ELSE get_noc_link_latency * Len(route)
        noc_router_latency_component ==
            IF detailed_router_latency
            THEN get_router_latency(get_source_router(route[1])) + SumSinkRouterLatency(route)
            ELSE get_noc_router_latency * Len(route)
        latency == noc_router_latency_component + noc_link_latency_component
        latency_overrun == Max(latency - flow.max_traffic_flow_latency, 0)
    IN  << latency * flow.traffic_flow_priority,
           latency_overrun * flow.traffic_flow_priority >>

\* variant: the detailed router component leaves out the source router of the
\* first link
calculate_traffic_flow_latency_cost_sink_routers_only(route, flow) ==
    LET noc_link_latency_component ==
            IF detailed_link_latency
            THEN SumLinkLatency(route)
            ELSE get_noc_link_latency * Len(route)
        noc_router_latency_component ==
            IF detailed_router_latency
            THEN SumSinkRouterLatency(route)
            ELSE get_noc_router_latency * (Len(route) + 1)
        latency == noc_router_latency_component + noc_link_latency_component
        latency_overrun == Max(latency - flow.max_traffic_flow_latency, 0)
    IN  << latency * flow.traffic_flow_priority,
           latency_overrun * flow.traffic_flow_priority >>

\* returns << latency cost, latency overrun cost >>
calculate_traffic_flow_latency_cost(route, flow) ==
    LET noc_link_latency_component ==
            IF detailed_link_latency
            THEN SumLinkLatency(route)
            ELSE get_noc_link_latency * Len(route)
        noc_router_latency_component ==
            IF detailed_router_latency
            THEN get_router_latency(get_source_router(route[1])) + SumSinkRouterLatency(route)
            ELSE get_noc_router_latency * (Len(route) + 1)
        latency == noc_router_latency_component + noc_link_latency_component
        latency_overrun == Max(latency - flow.max_traffic_flow_latency, 0)
    IN  << latency * flow.traffic_flow_priority,
           latency_overrun * flow.traffic_flow_priority >>

\* variant: the congested bandwidth is not clamped at zero
get_link_congestion_cost_unclamped(link, usages) ==
    ((usages[link] - get_bandwidth(link)) * CongestionDenominator) \div get_bandwidth(link)

\* in units of 1 / CongestionDenominator
get_link_congestion_cost(link, usages) ==
    (Max(usages[link] - get_bandwidth(link), 0) * CongestionDenominator) \div get_bandwidth(link)

flow_cost(route, flow) ==
    [aggregate_bandwidth |-> calculate_traffic_flow_aggregate_bandwidth_cost(route, flow),
     latency |-> calculate_traffic_flow_latency_cost(route, flow)[1],
     latency_overrun |-> calculate_traffic_flow_latency_cost(route, flow)[2]]

-----------------------------------------------------------------------------
(* Handler helpers *)

\* variant: the usage update that drops the sign and always adds
RECURSIVE update_traffic_flow_link_usage_unsigned(_, _, _, _)
update_traffic_flow_link_usage_unsigned(usages, traffic_flow_route, inc_or_dec, traffic_flow_bandwidth) ==
    IF traffic_flow_route = << >> THEN usages
    ELSE update_traffic_flow_link_usage_unsigned(
             [usages EXCEPT ![Head(traffic_flow_route)] = @ + traffic_flow_bandwidth],
             Tail(traffic_flow_route), inc_or_dec, traffic_flow_bandwidth)

RECURSIVE update_traffic_flow_link_usage(_, _, _, _)
update_traffic_flow_link_usage(usages, traffic_flow_route, inc_or_dec, traffic_flow_bandwidth) ==
    IF traffic_flow_route = << >> THEN usages
    ELSE update_traffic_flow_link_usage(
             [usages EXCEPT ![Head(traffic_flow_route)] = @ + inc_or_dec * traffic_flow_bandwidth],
             Tail(traffic_flow_route), inc_or_dec, traffic_flow_bandwidth)

\* the route the collaborator writes into traffic_flow_routes[f] for the
\* routers under the flow's source and sink clusters
route_traffic_flow(f, locs) ==
    route_flow(get_router_at_grid_location(locs[noc_traffic_flows[f].source_router_cluster_id]),
               get_router_at_grid_location(locs[noc_traffic_flows[f].sink_router_cluster_id]),
               noc_routing_algorithm)

RECURSIVE InsertSorted(_, _)
InsertSorted(x, s) ==
    IF s = << >> THEN << x >>
    ELSE IF x < Head(s) THEN << x >> \o s
    ELSE << Head(s) >> \o InsertSorted(x, Tail(s))

RECURSIVE stable_sort(_)
stable_sort(s) ==
    IF s = << >> THEN << >> ELSE InsertSorted(s[Len(s)], stable_sort(SubSeq(s, 1, Len(s) - 1)))

\* std::set_difference on two sorted ranges
RECURSIVE set_difference(_, _)
set_difference(a, b) ==
    IF a = << >> THEN << >>
    ELSE IF b = << >> THEN a
    ELSE IF Head(a) < Head(b) THEN << Head(a) >> \o set_difference(Tail(a), b)
    ELSE IF Head(b) < Head(a) THEN set_difference(a, Tail(b))
    ELSE set_difference(Tail(a), Tail(b))

\* variant: every link of either route, shared links included
find_affected_links_of_both_routes(prev_links, curr_links) ==
    stable_sort(prev_links) \o stable_sort(curr_links)

\* variant: only the links the flow left, not the ones it newly uses
find_affected_links_prev_only(prev_links, curr_links) ==
    set_difference(stable_sort(prev_links), stable_sort(curr_links))

\* variant: only the links the flow newly uses, not the ones it left
find_affected_links_curr_only(prev_links, curr_links) ==
    set_difference(stable_sort(curr_links), stable_sort(prev_links))

\* variant: the set differences taken on the routes as they are handed over
find_affected_links_without_sort(prev_links, curr_links) ==
    set_difference(prev_links, curr_links) \o set_difference(curr_links, prev_links)

find_affected_links_by_flow_reroute(prev_links, curr_links) ==
    set_difference(stable_sort(prev_links), stable_sort(curr_links))
        \o set_difference(stable_sort(curr_links), stable_sort(prev_links))

Range(s) == { s[i] : i \in DOMAIN s }

\* the flow iterations the loops over moved_blocks make, in order: for every
\* moved block that has traffic flows, each of its associated flows
RECURSIVE associated_flow_iterations(_)
associated_flow_iterations(moved_blocks) ==
    IF moved_blocks = << >> THEN << >>
    ELSE (IF check_if_cluster_block_has_traffic_flows(Head(moved_blocks).block_num)
          THEN get_traffic_flows_associated_to_router_block(Head(moved_blocks).block_num)
          ELSE << >>) \o associated_flow_iterations(Tail(moved_blocks))

RECURSIVE initial_noc_routing_from(_, _, _, _)
initial_noc_routing_from(f, new_traffic_flow_routes, routes, usages) ==
    IF f \notin NocTrafficFlowIds THEN [routes |-> routes, usages |-> usages]
    ELSE LET curr_traffic_flow_route ==
                 IF DOMAIN new_traffic_flow_routes = {}
                 THEN route_traffic_flow(f, block_locs)
                 ELSE new_traffic_flow_routes[f]
         IN  initial_noc_routing_from(
                 f + 1, new_traffic_flow_routes,
                 [routes EXCEPT ![f] = curr_traffic_flow_route],
                 update_traffic_flow_link_usage(usages, curr_traffic_flow_route, 1,
                                                noc_traffic_flows[f].traffic_flow_bandwidth))

\* variant: initial routing that zeroes the usages before it routes
initial_noc_routing_zeroing(new_traffic_flow_routes, routes, usages) ==
    initial_noc_routing_from(0, new_traffic_flow_routes, routes, [l \in NocLinkIds |-> 0])

initial_noc_routing(new_traffic_flow_routes, routes, usages) ==
    initial_noc_routing_from(0, new_traffic_flow_routes, routes, usages)

RECURSIVE SumOver(_, _)
SumOver(S, f) ==
    IF S = {} THEN 0 ELSE LET x == CHOOSE y \in S : TRUE IN f[x] + SumOver(S \ {x}, f)

\* comp_noc_aggregate_bandwidth_cost and comp_noc_latency_cost: the per-flow cache
comp_noc_flow_costs(routes) ==
    [f \in NocTrafficFlowIds |-> flow_cost(routes[f], noc_traffic_flows[f])]

\* comp_noc_congestion_cost: the per-link cache
comp_noc_congestion_cost(usages) ==
    [l \in NocLinkIds |-> get_link_congestion_cost(l, usages)]

\* the totals the three comp_ functions return, and recompute_noc_costs rebuilds
sum_noc_costs(flow_costs, congestion_costs) ==
    [aggregate_bandwidth |-> SumOver(NocTrafficFlowIds, [f \in NocTrafficFlowIds |-> flow_costs[f].aggregate_bandwidth]),
     latency |-> SumOver(NocTrafficFlowIds, [f \in NocTrafficFlowIds |-> flow_costs[f].latency]),
     latency_overrun |-> SumOver(NocTrafficFlowIds, [f \in NocTrafficFlowIds |-> flow_costs[f].latency_overrun]),
     congestion |-> SumOver(NocLinkIds, congestion_costs)]

recompute_noc_costs == sum_noc_costs(traffic_flow_costs, link_congestion_costs)

-----------------------------------------------------------------------------
(* Construction *)

InitialBlockLocs ==
    [b \in ClusterBlockIds |->
        CASE b = 0 -> <<0, 0, 0>>
          [] b = 1 -> <<1, 0, 0>>
          [] b = 2 -> <<1, 1, 0>>
          [] b = 3 -> <<2, 0, 0>>]

NoDelta == [aggregate_bandwidth |-> "none"]

\* the caller has handed no routes to reinitialize_noc_routing (yet)
NoSeed == [given |-> FALSE]

\* no call of get_top_n_congested_links has been made
NoQuery == [n |-> -1]

\* no call of the proposer (of check_for_router_swap) has been made
NoProposal == [create_move |-> "none"]
NoRouterSwapCheck == [checked |-> FALSE]

\* update_noc_normalization_factors has not been called
NoNormFactors == [updated |-> FALSE]

\* noc_routing_has_cycle (write_noc_placement_file, check_noc_placement_costs)
\* has not been called
NoCycleCheck == [checked |-> FALSE]
NoPlacementFile == [written |-> FALSE]
NoCostCheck == [checked |-> FALSE]

\* get_number_of_traffic_flows_with_latency_cons_met has not been called
NoLatencyCount == [counted |-> FALSE]

\* find_affected_links_by_flow_reroute is not called on its own
NoAffectedLinksCall == [called |-> FALSE, prev_links |-> << >>, curr_links |-> << >>]

\* the threads of the task arena: the one that calls route_netlist and a worker
RouterThreads == { "caller", "worker" }

\* a thread that runs no task
NoTask == [node |-> 0]

\* RouteIterResults(): nothing rerouted, no bounding box updated, routable
RouteIterResults == [rerouted_nets |-> << >>, bb_updated_nets |-> << >>, is_routable |-> TRUE]

\* _tree is empty until the first route_netlist
NoPartitionTree == [built |-> FALSE]

NoRouteIterResults == [returned |-> FALSE]

\* the ParallelNetlistRouter as its constructor leaves it
NetlistRouterConstructed ==
    /\ tree = NoPartitionTree
    /\ router_pc = "idle"
    /\ task_group = {}
    /\ thread_task = [t \in RouterThreads |-> NoTask]
    /\ results_th = [t \in RouterThreads |-> RouteIterResults]
    /\ spawned = {}
    /\ route_net_log = << >>
    /\ route_iter_results = NoRouteIterResults

\* the handler under test: the netlist of the fixture, no block fixed
HandlerUnderTest ==
    /\ reinit_seed = NoSeed
    /\ diagnostics = {}
    /\ is_fixed = [b \in ClusterBlockIds |-> FALSE]
    /\ router_clusters = << 0, 1, 2 >>
    /\ congested_links = NoQuery
    /\ proposal = NoProposal
    /\ router_swap = NoRouterSwapCheck
    /\ noc_cost_norm_factors = NoNormFactors
    /\ has_cycle = NoCycleCheck
    /\ noc_placement_file = NoPlacementFile
    /\ noc_cost_check = NoCostCheck
    /\ latency_cons_met = NoLatencyCount
    /\ NetlistRouterConstructed

\* the handler as its constructor leaves it
Constructed ==
    /\ traffic_flow_routes = [f \in NocTrafficFlowIds |-> << >>]
    /\ traffic_flow_routes_backup = [f \in NocTrafficFlowIds |-> << >>]
    /\ traffic_flow_costs = [f \in NocTrafficFlowIds |-> InvalidFlowCost]
    /\ proposed_traffic_flow_costs = [f \in NocTrafficFlowIds |-> InvalidFlowCost]
    /\ link_bandwidth_usages = [l \in NocLinkIds |-> 0]
    /\ link_congestion_costs = [l \in NocLinkIds |-> INVALID_NOC_COST_TERM]
    /\ proposed_link_congestion_costs = [l \in NocLinkIds |-> INVALID_NOC_COST_TERM]

\* the handler and its caller before initial_noc_routing
HandlerAtInitialPlacement ==
    /\ block_locs = InitialBlockLocs
    /\ blocks_affected = << >>
    /\ noc_routing_algorithm \in RoutingAlgorithms
    /\ detailed_link_latency \in BOOLEAN
    /\ detailed_router_latency = detailed_link_latency
    /\ Constructed
    /\ affected_traffic_flows = << >>
    /\ affected_noc_links = {}
    /\ updated_traffic_flows = {}
    /\ todo = << >>
    /\ half_done = FALSE
    /\ costs = ZeroCostTerms
    /\ delta_c = ZeroCostTerms
    /\ phase = "constructed"
    /\ num_moves = 0
    /\ num_swap_rejected = 0
    /\ saved_routes = [f \in NocTrafficFlowIds |-> << >>]
    /\ saved_usages = [l \in NocLinkIds |-> 0]
    /\ first_delta_c = NoDelta
    /\ HandlerUnderTest

Init ==
    /\ HandlerAtInitialPlacement
    /\ flow_reroute_links = NoAffectedLinksCall

\* the seed routes a caller may hand over: none (route with the collaborator),
\* or one route per flow found by an external router for the current placement
SeedRoutes ==
    { << >> } \cup
    { [f \in NocTrafficFlowIds |->
          route_flow(get_router_at_grid_location(block_locs[noc_traffic_flows[f].source_router_cluster_id]),
                     get_router_at_grid_location(block_locs[noc_traffic_flows[f].sink_router_cluster_id]),
                     a)] : a \in RoutingAlgorithms }

NocModelUnchanged ==
    UNCHANGED << noc_routing_algorithm, detailed_link_latency, detailed_router_latency >>

ProposerUnchanged ==
    UNCHANGED << is_fixed, router_clusters, congested_links, proposal, router_swap >>

\* what the handler's operations leave to the placer's driver
DriverUnchanged ==
    ProposerUnchanged /\ UNCHANGED << reinit_seed, diagnostics, noc_cost_norm_factors, has_cycle, noc_placement_file,
                    noc_cost_check, latency_cons_met, flow_reroute_links >> /\ NetlistRouterUnchanged

ScratchUnchanged ==
    UNCHANGED << affected_traffic_flows, affected_noc_links, updated_traffic_flows, todo, half_done >>

ProposedUnchanged ==
    UNCHANGED << proposed_traffic_flow_costs, proposed_link_congestion_costs >>

CommittedCostsUnchanged ==
    UNCHANGED << traffic_flow_costs, link_congestion_costs >>

CallerCopiesUnchanged ==
    UNCHANGED << saved_routes, saved_usages, first_delta_c >>

\* when a transaction is over the caller clears its move, zeroes its delta
\* terms and drops the copies it took
CallerForgetsMove ==
    /\ blocks_affected' = << >>
    /\ delta_c' = ZeroCostTerms
    /\ saved_routes' = [f \in NocTrafficFlowIds |-> << >>]
    /\ saved_usages' = [l \in NocLinkIds |-> 0]
    /\ first_delta_c' = NoDelta

-----------------------------------------------------------------------------
(* Routing initialisation *)

\* variant: initial routing that also fills the committed cost caches
InitialNocRoutingCachingCosts ==
    /\ phase = "constructed"
    /\ \E new_traffic_flow_routes \in SeedRoutes :
          LET r == initial_noc_routing(new_traffic_flow_routes, traffic_flow_routes,
                                       link_bandwidth_usages)
          IN  /\ traffic_flow_routes' = r.routes
              /\ link_bandwidth_usages' = r.usages
    /\ traffic_flow_costs' = comp_noc_flow_costs(traffic_flow_routes')
    /\ link_congestion_costs' = comp_noc_congestion_cost(link_bandwidth_usages')
    /\ phase' = "routed"
    /\ UNCHANGED << block_locs, blocks_affected, traffic_flow_routes_backup, costs, delta_c >>
    /\ UNCHANGED << num_moves, num_swap_rejected >> /\ NocModelUnchanged /\ DriverUnchanged
    /\ ScratchUnchanged /\ ProposedUnchanged /\ CallerCopiesUnchanged

InitialNocRouting ==
    /\ phase = "constructed"
    /\ \E new_traffic_flow_routes \in SeedRoutes :
          LET r == initial_noc_routing(new_traffic_flow_routes, traffic_flow_routes,
                                       link_bandwidth_usages)
          IN  /\ traffic_flow_routes' = r.routes
              /\ link_bandwidth_usages' = r.usages
    /\ phase' = "routed"
    /\ UNCHANGED << block_locs, blocks_affected, traffic_flow_routes_backup, costs, delta_c >>
    /\ UNCHANGED << num_moves, num_swap_rejected >> /\ NocModelUnchanged /\ DriverUnchanged /\ ScratchUnchanged /\ ProposedUnchanged
    /\ CommittedCostsUnchanged /\ CallerCopiesUnchanged

\* the caller's first cost computation: comp_noc_aggregate_bandwidth_cost,
\* comp_noc_latency_cost and comp_noc_congestion_cost
CompNocCosts ==
    /\ phase = "routed"
    /\ traffic_flow_costs' = comp_noc_flow_costs(traffic_flow_routes)
    /\ link_congestion_costs' = comp_noc_congestion_cost(link_bandwidth_usages)
    /\ costs' = sum_noc_costs(traffic_flow_costs', link_congestion_costs')
    /\ phase' = "idle"
    /\ UNCHANGED << block_locs, blocks_affected, traffic_flow_routes, traffic_flow_routes_backup,
                    link_bandwidth_usages, delta_c >>
    /\ UNCHANGED << num_moves, num_swap_rejected >> /\ NocModelUnchanged /\ DriverUnchanged /\ ScratchUnchanged /\ ProposedUnchanged /\ CallerCopiesUnchanged

\* variant: re-initialisation that leaves the old usages in place
ReinitializeNocRoutingKeepingUsage ==
    /\ phase \in { "routed", "idle" }
    /\ \E new_traffic_flow_routes \in SeedRoutes :
          LET r == initial_noc_routing(new_traffic_flow_routes, traffic_flow_routes,
                                       link_bandwidth_usages)
          IN  /\ traffic_flow_routes' = r.routes
              /\ link_bandwidth_usages' = r.usages
              /\ reinit_seed' = [given |-> TRUE, new_traffic_flow_routes |-> new_traffic_flow_routes]
    /\ traffic_flow_costs' = comp_noc_flow_costs(traffic_flow_routes')
    /\ link_congestion_costs' = comp_noc_congestion_cost(link_bandwidth_usages')
    /\ costs' = sum_noc_costs(traffic_flow_costs', link_congestion_costs')
    /\ phase' = "idle"
    /\ UNCHANGED << block_locs, blocks_affected, traffic_flow_routes_backup, delta_c >>
    /\ UNCHANGED << num_moves, num_swap_rejected >> /\ NocModelUnchanged /\ ProposerUnchanged /\ UNCHANGED << diagnostics, noc_cost_norm_factors, has_cycle, noc_placement_file,
                    noc_cost_check, latency_cons_met, flow_reroute_links >> /\ NetlistRouterUnchanged /\ ScratchUnchanged /\ ProposedUnchanged /\ CallerCopiesUnchanged

ReinitializeNocRouting ==
    /\ phase \in { "routed", "idle" }
    /\ \E new_traffic_flow_routes \in SeedRoutes :
          LET r == initial_noc_routing(new_traffic_flow_routes, traffic_flow_routes,
                                       [l \in NocLinkIds |-> 0])
          IN  /\ traffic_flow_routes' = r.routes
              /\ link_bandwidth_usages' = r.usages
              /\ reinit_seed' = [given |-> TRUE, new_traffic_flow_routes |-> new_traffic_flow_routes]
    /\ traffic_flow_costs' = comp_noc_flow_costs(traffic_flow_routes')
    /\ link_congestion_costs' = comp_noc_congestion_cost(link_bandwidth_usages')
    /\ costs' = sum_noc_costs(traffic_flow_costs', link_congestion_costs')
    /\ phase' = "idle"
    /\ UNCHANGED << block_locs, blocks_affected, traffic_flow_routes_backup, delta_c >>
    /\ UNCHANGED << num_moves, num_swap_rejected >> /\ NocModelUnchanged /\ ProposerUnchanged /\ UNCHANGED << diagnostics, noc_cost_norm_factors, has_cycle, noc_placement_file,
                    noc_cost_check, latency_cons_met, flow_reroute_links >> /\ NetlistRouterUnchanged /\ ScratchUnchanged /\ ProposedUnchanged /\ CallerCopiesUnchanged

-----------------------------------------------------------------------------
(* The annealer proposes a move and applies it to the block locations *)

moved_block(b, from, to) == [block_num |-> b, old_loc |-> from, new_loc |-> to]

CompatibleTiles(b) == IF b \in RouterClusters THEN RouterTiles ELSE LogicTiles

BoundedSeqs(S, n) == UNION { [1 .. k -> S] : k \in 0 .. n }

ApplyMove ==
    /\ phase = "idle"
    /\ num_moves < MaxMoves
    /\ num_moves' = num_moves + 1
    /\ UNCHANGED num_swap_rejected
    /\ \E b \in ClusterBlockIds : \E to \in CompatibleTiles(b) \ { block_locs[b] } :
          LET from == block_locs[b]
              occupants == { c \in ClusterBlockIds : block_locs[c] = to }
              base == IF occupants = {}
                      THEN << moved_block(b, from, to) >>
                      ELSE << moved_block(b, from, to),
                              moved_block(CHOOSE c \in occupants : TRUE, to, from) >>
          IN  \E again \in BoundedSeqs(Range(base), MaxMovedBlocks - Len(base)) :
                 /\ blocks_affected' = base \o again
                 /\ block_locs' = [c \in ClusterBlockIds |->
                                      IF c = b THEN to
                                      ELSE IF c \in occupants THEN from
                                      ELSE block_locs[c]]
    /\ saved_routes' = traffic_flow_routes
    /\ saved_usages' = link_bandwidth_usages
    /\ first_delta_c' = NoDelta
    /\ reinit_seed' = NoSeed
    /\ phase' = "moved"
    /\ UNCHANGED << traffic_flow_routes, traffic_flow_routes_backup, link_bandwidth_usages,
                    costs, delta_c >>
    /\ NocModelUnchanged /\ ProposerUnchanged /\ UNCHANGED << diagnostics, noc_cost_norm_factors, has_cycle, noc_placement_file,
                    noc_cost_check, latency_cons_met, flow_reroute_links >> /\ NetlistRouterUnchanged /\ ScratchUnchanged /\ ProposedUnchanged /\ CommittedCostsUnchanged

-----------------------------------------------------------------------------
(* find_affected_noc_routers_and_update_noc_costs *)

\* variant: entry that keeps the scratch containers of the last call
find_affected_entry_without_clear ==
    /\ delta_c' = ZeroCostTerms
    /\ updated_traffic_flows' = {}
    /\ todo' = associated_flow_iterations(blocks_affected)
    /\ half_done' = FALSE
    /\ phase' = "eval"
    /\ UNCHANGED << block_locs, blocks_affected, traffic_flow_routes, traffic_flow_routes_backup,
                    link_bandwidth_usages, costs, saved_routes, saved_usages,
                    affected_traffic_flows, affected_noc_links >>
    /\ UNCHANGED << num_moves, num_swap_rejected >> /\ NocModelUnchanged /\ DriverUnchanged /\ ProposedUnchanged /\ CommittedCostsUnchanged

\* entry: the caller hands in zeroed delta terms; the scratch containers are cleared
find_affected_entry ==
    /\ delta_c' = ZeroCostTerms
    /\ updated_traffic_flows' = {}
    /\ affected_traffic_flows' = << >>
    /\ affected_noc_links' = {}
    /\ todo' = associated_flow_iterations(blocks_affected)
    /\ half_done' = FALSE
    /\ phase' = "eval"
    /\ UNCHANGED << block_locs, blocks_affected, traffic_flow_routes, traffic_flow_routes_backup,
                    link_bandwidth_usages, costs, saved_routes, saved_usages >>
    /\ UNCHANGED << num_moves, num_swap_rejected >> /\ NocModelUnchanged /\ DriverUnchanged /\ ProposedUnchanged /\ CommittedCostsUnchanged

FindAffectedBegin ==
    /\ phase = "moved"
    /\ find_affected_entry
    /\ UNCHANGED first_delta_c

\* variant: re-route without the updated_traffic_flows check
already_updated_unchecked(traffic_flow_id, updated) == FALSE

\* the check that keeps a flow from being re-routed twice in one call
already_updated(traffic_flow_id, updated) == traffic_flow_id \in updated

ReRouteSkip ==
    /\ phase = "eval"
    /\ todo /= << >>
    /\ already_updated(Head(todo), updated_traffic_flows)
    /\ todo' = Tail(todo)
    /\ UNCHANGED << block_locs, blocks_affected, traffic_flow_routes, traffic_flow_routes_backup,
                    link_bandwidth_usages, costs, delta_c, phase, affected_traffic_flows,
                    affected_noc_links, updated_traffic_flows, half_done >>
    /\ UNCHANGED << num_moves, num_swap_rejected >> /\ NocModelUnchanged /\ DriverUnchanged /\ ProposedUnchanged /\ CommittedCostsUnchanged /\ CallerCopiesUnchanged

\* variant: the route is read after the swap with the backup slot
curr_traffic_flow_route_after_swap(f, routes, backup) == backup[f]

\* the route re_route_traffic_flow takes the flow off: its current route
curr_traffic_flow_route(f, routes, backup) == routes[f]

\* variant: the first half of re_route_traffic_flow without the move of the
\* route to the backup slot
ReRouteDecrementWithoutBackup ==
    /\ phase = "eval"
    /\ todo /= << >>
    /\ ~half_done
    /\ ~already_updated(Head(todo), updated_traffic_flows)
    /\ LET f == Head(todo)
       IN  link_bandwidth_usages' =
               update_traffic_flow_link_usage(
                   link_bandwidth_usages,
                   curr_traffic_flow_route(f, traffic_flow_routes, traffic_flow_routes_backup),
                   -1, noc_traffic_flows[f].traffic_flow_bandwidth)
    /\ half_done' = TRUE
    /\ UNCHANGED << block_locs, blocks_affected, costs, delta_c, phase, affected_traffic_flows,
                    affected_noc_links, updated_traffic_flows, todo, traffic_flow_routes,
                    traffic_flow_routes_backup >>
    /\ UNCHANGED << num_moves, num_swap_rejected >> /\ NocModelUnchanged /\ DriverUnchanged /\ ProposedUnchanged /\ CommittedCostsUnchanged /\ CallerCopiesUnchanged

\* re_route_traffic_flow, first half: take the flow off the links of its
\* route and move the route to the backup slot
ReRouteDecrement ==
    /\ phase = "eval"
    /\ todo /= << >>
    /\ ~half_done
    /\ ~already_updated(Head(todo), updated_traffic_flows)
    /\ LET f == Head(todo)
       IN  /\ link_bandwidth_usages' =
                  update_traffic_flow_link_usage(
                      link_bandwidth_usages,
                      curr_traffic_flow_route(f, traffic_flow_routes, traffic_flow_routes_backup),
                      -1, noc_traffic_flows[f].traffic_flow_bandwidth)
           /\ traffic_flow_routes' = [traffic_flow_routes EXCEPT ![f] = traffic_flow_routes_backup[f]]
           /\ traffic_flow_routes_backup' = [traffic_flow_routes_backup EXCEPT ![f] = traffic_flow_routes[f]]
    /\ half_done' = TRUE
    /\ UNCHANGED << block_locs, blocks_affected, costs, delta_c, phase, affected_traffic_flows,
                    affected_noc_links, updated_traffic_flows, todo >>
    /\ UNCHANGED << num_moves, num_swap_rejected >> /\ NocModelUnchanged /\ DriverUnchanged /\ ProposedUnchanged /\ CommittedCostsUnchanged /\ CallerCopiesUnchanged

\* re_route_traffic_flow, second half, and the rest of the loop body of
\* re_route_associated_traffic_flows.  The copy prev_traffic_flow_links taken
\* before the re-route is the route now in the backup slot.
ReRouteIncrement ==
    /\ phase = "eval"
    /\ todo /= << >>
    /\ half_done
    /\ LET f == Head(todo)
           prev_traffic_flow_links == traffic_flow_routes_backup[f]
           curr_traffic_flow_links == route_traffic_flow(f, block_locs)
           unique_links == find_affected_links_by_flow_reroute(prev_traffic_flow_links,
                                                               curr_traffic_flow_links)
       IN  /\ traffic_flow_routes' = [traffic_flow_routes EXCEPT ![f] = curr_traffic_flow_links]
           /\ link_bandwidth_usages' =
                  update_traffic_flow_link_usage(link_bandwidth_usages, curr_traffic_flow_links, 1,
                                                 noc_traffic_flows[f].traffic_flow_bandwidth)
           /\ updated_traffic_flows' = updated_traffic_flows \cup { f }
           /\ affected_noc_links' = affected_noc_links \cup Range(unique_links)
           /\ affected_traffic_flows' = Append(affected_traffic_flows, f)
    /\ todo' = Tail(todo)
    /\ half_done' = FALSE
    /\ UNCHANGED << block_locs, blocks_affected, traffic_flow_routes_backup, costs, delta_c, phase >>
    /\ UNCHANGED << num_moves, num_swap_rejected >> /\ NocModelUnchanged /\ DriverUnchanged /\ ProposedUnchanged /\ CommittedCostsUnchanged /\ CallerCopiesUnchanged

\* variant: the loop writes the new costs into the committed array
RECURSIVE propose_traffic_flow_costs_into_committed(_, _, _, _)
propose_traffic_flow_costs_into_committed(flows, committed, proposed, delta) ==
    IF flows = << >> THEN [committed |-> committed, proposed |-> proposed, delta |-> delta]
    ELSE LET f == Head(flows)
             c == flow_cost(traffic_flow_routes[f], noc_traffic_flows[f])
         IN  propose_traffic_flow_costs_into_committed(
                 Tail(flows),
                 [committed EXCEPT ![f] = c],
                 [proposed EXCEPT ![f] = c],
                 [delta EXCEPT
                     !.aggregate_bandwidth = @ + c.aggregate_bandwidth - committed[f].aggregate_bandwidth,
                     !.latency = @ + c.latency - committed[f].latency,
                     !.latency_overrun = @ + c.latency_overrun - committed[f].latency_overrun])

\* the loop over affected_traffic_flows: proposed per-flow costs and their
\* deltas against the committed costs, which the loop only reads
RECURSIVE propose_traffic_flow_costs(_, _, _, _)
propose_traffic_flow_costs(flows, committed, proposed, delta) ==
    IF flows = << >> THEN [committed |-> committed, proposed |-> proposed, delta |-> delta]
    ELSE LET f == Head(flows)
             c == flow_cost(traffic_flow_routes[f], noc_traffic_flows[f])
         IN  propose_traffic_flow_costs(
                 Tail(flows),
                 committed,
                 [proposed EXCEPT ![f] = c],
                 [delta EXCEPT
                     !.aggregate_bandwidth = @ + c.aggregate_bandwidth - committed[f].aggregate_bandwidth,
                     !.latency = @ + c.latency - committed[f].latency,
                     !.latency_overrun = @ + c.latency_overrun - committed[f].latency_overrun])

\* the loop over affected_noc_links: proposed congestion costs
propose_link_congestion_costs(links, proposed) ==
    [l \in NocLinkIds |->
        IF l \in links THEN get_link_congestion_cost(l, link_bandwidth_usages) ELSE proposed[l]]

FindAffectedFinish ==
    /\ phase = "eval"
    /\ todo = << >>
    /\ LET r == propose_traffic_flow_costs(affected_traffic_flows, traffic_flow_costs,
                                           proposed_traffic_flow_costs, delta_c)
           p == propose_link_congestion_costs(affected_noc_links, proposed_link_congestion_costs)
       IN  /\ traffic_flow_costs' = r.committed
           /\ proposed_traffic_flow_costs' = r.proposed
           /\ proposed_link_congestion_costs' = p
           /\ delta_c' = [r.delta EXCEPT
                             !.congestion = @ + SumOver(affected_noc_links,
                                                        [l \in NocLinkIds |-> p[l] - link_congestion_costs[l]])]
    /\ updated_traffic_flows' = {}
    /\ phase' = "dirty"
    /\ UNCHANGED << block_locs, blocks_affected, traffic_flow_routes, traffic_flow_routes_backup,
                    link_bandwidth_usages, costs, affected_traffic_flows, affected_noc_links,
                    todo, half_done, link_congestion_costs >>
    /\ UNCHANGED << num_moves, num_swap_rejected >> /\ NocModelUnchanged /\ DriverUnchanged /\ CallerCopiesUnchanged

-----------------------------------------------------------------------------
(* commit_noc_costs, and the caller adding the accepted delta to its totals *)

\* variant: commit that invalidates the proposed cost before copying it
RECURSIVE commit_traffic_flow_costs_reset_first(_, _, _)
commit_traffic_flow_costs_reset_first(flows, committed, proposed) ==
    IF flows = << >> THEN [committed |-> committed, proposed |-> proposed]
    ELSE commit_traffic_flow_costs_reset_first(
             Tail(flows),
             [committed EXCEPT ![Head(flows)] = InvalidFlowCost],
             [proposed EXCEPT ![Head(flows)] = InvalidFlowCost])

RECURSIVE commit_traffic_flow_costs(_, _, _)
commit_traffic_flow_costs(flows, committed, proposed) ==
    IF flows = << >> THEN [committed |-> committed, proposed |-> proposed]
    ELSE commit_traffic_flow_costs(Tail(flows),
                                   [committed EXCEPT ![Head(flows)] = proposed[Head(flows)]],
                                   [proposed EXCEPT ![Head(flows)] = InvalidFlowCost])

\* variant: commit that leaves the proposed congestion costs in place
commit_link_congestion_costs_keep_proposed(links, committed, proposed) ==
    [committed |-> [l \in NocLinkIds |-> IF l \in links THEN proposed[l] ELSE committed[l]],
     proposed |-> proposed]

commit_link_congestion_costs(links, committed, proposed) ==
    [committed |-> [l \in NocLinkIds |-> IF l \in links THEN proposed[l] ELSE committed[l]],
     proposed |-> [l \in NocLinkIds |-> IF l \in links THEN INVALID_NOC_COST_TERM ELSE proposed[l]]]

add_delta(totals, delta) ==
    [aggregate_bandwidth |-> totals.aggregate_bandwidth + delta.aggregate_bandwidth,
     latency |-> totals.latency + delta.latency,
     latency_overrun |-> totals.latency_overrun + delta.latency_overrun,
     congestion |-> totals.congestion + delta.congestion]

CommitNocCosts ==
    /\ phase = "dirty"
    /\ LET cf == commit_traffic_flow_costs(affected_traffic_flows, traffic_flow_costs,
                                           proposed_traffic_flow_costs)
           cl == commit_link_congestion_costs(affected_noc_links, link_congestion_costs,
                                              proposed_link_congestion_costs)
       IN  /\ traffic_flow_costs' = cf.committed
           /\ proposed_traffic_flow_costs' = cf.proposed
           /\ link_congestion_costs' = cl.committed
           /\ proposed_link_congestion_costs' = cl.proposed
    /\ costs' = add_delta(costs, delta_c)
    /\ CallerForgetsMove
    /\ phase' = "idle"
    /\ UNCHANGED << block_locs, traffic_flow_routes, traffic_flow_routes_backup,
                    link_bandwidth_usages >>
    /\ UNCHANGED << num_moves, num_swap_rejected >> /\ NocModelUnchanged /\ DriverUnchanged /\ ScratchUnchanged

-----------------------------------------------------------------------------
(* revert_noc_traffic_flow_routes, after the caller put the blocks back *)

RECURSIVE revert_move_blocks(_, _)
revert_move_blocks(moved_blocks, locs) ==
    IF moved_blocks = << >> THEN locs
    ELSE revert_move_blocks(Tail(moved_blocks),
                            [locs EXCEPT ![Head(moved_blocks).block_num] = Head(moved_blocks).old_loc])

RevertBegin ==
    /\ phase = "dirty"
    /\ block_locs' = revert_move_blocks(blocks_affected, block_locs)
    /\ updated_traffic_flows' = {}
    /\ todo' = associated_flow_iterations(blocks_affected)
    /\ half_done' = FALSE
    /\ phase' = "revert"
    /\ UNCHANGED << blocks_affected, traffic_flow_routes, traffic_flow_routes_backup,
                    link_bandwidth_usages, costs, delta_c, affected_traffic_flows, affected_noc_links >>
    /\ UNCHANGED << num_moves, num_swap_rejected >> /\ NocModelUnchanged /\ DriverUnchanged /\ ProposedUnchanged /\ CommittedCostsUnchanged /\ CallerCopiesUnchanged

\* variant: revert without the reverted_traffic_flows check
already_reverted_unchecked(traffic_flow_id, reverted) == FALSE

\* the check that keeps a flow from being reverted twice in one call
already_reverted(traffic_flow_id, reverted) == traffic_flow_id \in reverted

RevertSkip ==
    /\ phase = "revert"
    /\ todo /= << >>
    /\ already_reverted(Head(todo), updated_traffic_flows)
    /\ todo' = Tail(todo)
    /\ UNCHANGED << block_locs, blocks_affected, traffic_flow_routes, traffic_flow_routes_backup,
                    link_bandwidth_usages, costs, delta_c, phase, affected_traffic_flows,
                    affected_noc_links, updated_traffic_flows, half_done >>
    /\ UNCHANGED << num_moves, num_swap_rejected >> /\ NocModelUnchanged /\ DriverUnchanged /\ ProposedUnchanged /\ CommittedCostsUnchanged /\ CallerCopiesUnchanged

\* decrease the usage of the links of the current route
RevertDecrement ==
    /\ phase = "revert"
    /\ todo /= << >>
    /\ ~half_done
    /\ ~already_reverted(Head(todo), updated_traffic_flows)
    /\ link_bandwidth_usages' =
           update_traffic_flow_link_usage(link_bandwidth_usages, traffic_flow_routes[Head(todo)], -1,
                                          noc_traffic_flows[Head(todo)].traffic_flow_bandwidth)
    /\ half_done' = TRUE
    /\ UNCHANGED << block_locs, blocks_affected, traffic_flow_routes, traffic_flow_routes_backup,
                    costs, delta_c, phase, affected_traffic_flows, affected_noc_links,
                    updated_traffic_flows, todo >>
    /\ UNCHANGED << num_moves, num_swap_rejected >> /\ NocModelUnchanged /\ DriverUnchanged /\ ProposedUnchanged /\ CommittedCostsUnchanged /\ CallerCopiesUnchanged

\* variant: the flow is not entered into reverted_traffic_flows
RevertIncrementWithoutInsert ==
    /\ phase = "revert"
    /\ todo /= << >>
    /\ half_done
    /\ LET f == Head(todo)
       IN  /\ link_bandwidth_usages' =
                  update_traffic_flow_link_usage(link_bandwidth_usages, traffic_flow_routes_backup[f], 1,
                                                 noc_traffic_flows[f].traffic_flow_bandwidth)
           /\ traffic_flow_routes' = [traffic_flow_routes EXCEPT ![f] = traffic_flow_routes_backup[f]]
           /\ traffic_flow_routes_backup' = [traffic_flow_routes_backup EXCEPT ![f] = traffic_flow_routes[f]]
           /\ updated_traffic_flows' = updated_traffic_flows
    /\ todo' = Tail(todo)
    /\ half_done' = FALSE
    /\ UNCHANGED << block_locs, blocks_affected, costs, delta_c, phase, affected_traffic_flows,
                    affected_noc_links >>
    /\ UNCHANGED << num_moves, num_swap_rejected >> /\ NocModelUnchanged /\ DriverUnchanged /\ ProposedUnchanged /\ CommittedCostsUnchanged /\ CallerCopiesUnchanged

\* increase the usage of the links of the backup route and swap the two slots
RevertIncrement ==
    /\ phase = "revert"
    /\ todo /= << >>
    /\ half_done
    /\ LET f == Head(todo)
       IN  /\ link_bandwidth_usages' =
                  update_traffic_flow_link_usage(link_bandwidth_usages, traffic_flow_routes_backup[f], 1,
                                                 noc_traffic_flows[f].traffic_flow_bandwidth)
           /\ traffic_flow_routes' = [traffic_flow_routes EXCEPT ![f] = traffic_flow_routes_backup[f]]
           /\ traffic_flow_routes_backup' = [traffic_flow_routes_backup EXCEPT ![f] = traffic_flow_routes[f]]
           /\ updated_traffic_flows' = updated_traffic_flows \cup { f }
    /\ todo' = Tail(todo)
    /\ half_done' = FALSE
    /\ UNCHANGED << block_locs, blocks_affected, costs, delta_c, phase, affected_traffic_flows,
                    affected_noc_links >>
    /\ UNCHANGED << num_moves, num_swap_rejected >> /\ NocModelUnchanged /\ DriverUnchanged /\ ProposedUnchanged /\ CommittedCostsUnchanged /\ CallerCopiesUnchanged

RevertFinish ==
    /\ phase = "revert"
    /\ todo = << >>
    /\ updated_traffic_flows' = {}
    /\ CallerForgetsMove
    /\ num_swap_rejected' = num_swap_rejected + 1
    /\ phase' = "idle"
    /\ UNCHANGED << block_locs, traffic_flow_routes, traffic_flow_routes_backup,
                    link_bandwidth_usages, costs, affected_traffic_flows, affected_noc_links,
                    todo, half_done, num_moves >>
    /\ NocModelUnchanged /\ DriverUnchanged /\ ProposedUnchanged /\ CommittedCostsUnchanged

-----------------------------------------------------------------------------
(* Specifications *)

Next ==
    \/ InitialNocRouting
    \/ CompNocCosts
    \/ ReinitializeNocRouting
    \/ ApplyMove
    \/ FindAffectedBegin
    \/ ReRouteSkip
    \/ ReRouteDecrement
    \/ ReRouteIncrement
    \/ FindAffectedFinish
    \/ CommitNocCosts
    \/ RevertBegin
    \/ RevertSkip
    \/ RevertDecrement
    \/ RevertIncrement
    \/ RevertFinish

Spec == Init /\ [][Next]_vars

\* initial_noc_routing called again on a handler that is already routed; the
\* caller keeps a copy of the usages from before the call, and the run ends
InitialNocRoutingAgain ==
    /\ phase \in { "routed", "idle" }
    /\ \E new_traffic_flow_routes \in SeedRoutes :
          LET r == initial_noc_routing(new_traffic_flow_routes, traffic_flow_routes,
                                       link_bandwidth_usages)
          IN  /\ traffic_flow_routes' = r.routes
              /\ link_bandwidth_usages' = r.usages
    /\ saved_usages' = link_bandwidth_usages
    /\ phase' = "rerouted"
    /\ UNCHANGED << block_locs, blocks_affected, traffic_flow_routes_backup, costs, delta_c,
                    saved_routes, first_delta_c >>
    /\ UNCHANGED << num_moves, num_swap_rejected >> /\ NocModelUnchanged /\ DriverUnchanged
    /\ ScratchUnchanged /\ ProposedUnchanged /\ CommittedCostsUnchanged

NextRepeated == Next \/ InitialNocRoutingAgain

SpecRepeated == Init /\ [][NextRepeated]_vars

\* comp_noc_aggregate_bandwidth_cost called on a handler that has not routed
\* yet: every route is still empty; the run ends
CompNocAggregateBandwidthCostUnrouted ==
    /\ phase = "constructed"
    /\ traffic_flow_costs' =
           [f \in NocTrafficFlowIds |->
               [traffic_flow_costs[f] EXCEPT !.aggregate_bandwidth =
                   calculate_traffic_flow_aggregate_bandwidth_cost(
                       traffic_flow_routes[f], noc_traffic_flows[f])]]
    /\ costs' = [costs EXCEPT !.aggregate_bandwidth =
                    SumOver(NocTrafficFlowIds,
                            [f \in NocTrafficFlowIds |->
                                traffic_flow_costs'[f].aggregate_bandwidth])]
    /\ phase' = "costed"
    /\ UNCHANGED << block_locs, blocks_affected, traffic_flow_routes, traffic_flow_routes_backup,
                    link_bandwidth_usages, link_congestion_costs, delta_c >>
    /\ UNCHANGED << num_moves, num_swap_rejected >> /\ NocModelUnchanged /\ DriverUnchanged
    /\ ScratchUnchanged /\ ProposedUnchanged /\ CallerCopiesUnchanged

NextUnrouted == Next \/ CompNocAggregateBandwidthCostUnrouted

SpecUnrouted == Init /\ [][NextUnrouted]_vars

\* commit_noc_costs called between transactions, with no
\* find_affected_noc_routers_and_update_noc_costs since the last commit or
\* revert; the run ends
CommitNocCostsInIdle ==
    /\ phase = "idle"
    /\ LET cf == commit_traffic_flow_costs(affected_traffic_flows, traffic_flow_costs,
                                           proposed_traffic_flow_costs)
           cl == commit_link_congestion_costs(affected_noc_links, link_congestion_costs,
                                              proposed_link_congestion_costs)
       IN  /\ traffic_flow_costs' = cf.committed
           /\ proposed_traffic_flow_costs' = cf.proposed
           /\ link_congestion_costs' = cl.committed
           /\ proposed_link_congestion_costs' = cl.proposed
    /\ phase' = "committed_in_idle"
    /\ UNCHANGED << block_locs, blocks_affected, traffic_flow_routes, traffic_flow_routes_backup,
                    link_bandwidth_usages, costs, delta_c >>
    /\ UNCHANGED << num_moves, num_swap_rejected >> /\ NocModelUnchanged /\ DriverUnchanged
    /\ ScratchUnchanged /\ CallerCopiesUnchanged

NextCommitInIdle == Next \/ CommitNocCostsInIdle

SpecCommitInIdle == Init /\ [][NextCommitInIdle]_vars

\* the positions of traffic_flow_route that calculate_traffic_flow_latency_cost
\* reads: every element in the loops over the links, and the first one,
\* whatever the size, for the source router of the detailed router latency
route_elements_read(route) ==
    (IF detailed_link_latency \/ detailed_router_latency THEN DOMAIN route ELSE {})
        \cup (IF detailed_router_latency THEN { 1 } ELSE {})

\* calculate_traffic_flow_latency_cost where first_noc_link_id is what the read
\* of traffic_flow_route[0] has produced
calculate_traffic_flow_latency_cost_reading(route, flow, first_noc_link_id) ==
    LET noc_link_latency_component ==
            IF detailed_link_latency
            THEN SumLinkLatency(route)
            ELSE get_noc_link_latency * Len(route)
        noc_router_latency_component ==
            IF detailed_router_latency
            THEN get_router_latency(get_source_router(first_noc_link_id))
                     + SumSinkRouterLatency(route)
            ELSE get_noc_router_latency * (Len(route) + 1)
        latency == noc_router_latency_component + noc_link_latency_component
        latency_overrun == Max(latency - flow.max_traffic_flow_latency, 0)
    IN  << latency * flow.traffic_flow_priority,
           latency_overrun * flow.traffic_flow_priority >>

\* what a read of traffic_flow_route[0] produces: the element, or, for an
\* empty vector, whatever lies at that address
first_elements_read(route) == IF route = << >> THEN NocLinkIds ELSE { route[1] }

\* comp_noc_latency_cost called on a handler that has not routed yet: every
\* route is still empty.  A read outside the vector either faults or goes on
\* with the value found; the run ends
CompNocLatencyCostUnrouted ==
    /\ phase = "constructed"
    /\ \/ /\ \E f \in NocTrafficFlowIds :
                ~(route_elements_read(traffic_flow_routes[f]) \subseteq DOMAIN traffic_flow_routes[f])
          /\ phase' = "faulted"
          /\ UNCHANGED << traffic_flow_costs, costs >>
       \/ /\ \E first_noc_link_id \in [NocTrafficFlowIds -> NocLinkIds] :
                /\ \A f \in NocTrafficFlowIds :
                      first_noc_link_id[f] \in first_elements_read(traffic_flow_routes[f])
                /\ traffic_flow_costs' =
                       [f \in NocTrafficFlowIds |->
                           LET c == calculate_traffic_flow_latency_cost_reading(
                                        traffic_flow_routes[f], noc_traffic_flows[f],
                                        first_noc_link_id[f])
                           IN  [traffic_flow_costs[f] EXCEPT !.latency = c[1],
                                                             !.latency_overrun = c[2]]]
          /\ costs' = [costs EXCEPT
                          !.latency = SumOver(NocTrafficFlowIds,
                                              [f \in NocTrafficFlowIds |->
                                                  traffic_flow_costs'[f].latency]),
                          !.latency_overrun = SumOver(NocTrafficFlowIds,
                                                      [f \in NocTrafficFlowIds |->
                                                          traffic_flow_costs'[f].latency_overrun])]
          /\ phase' = "latency_costed"
    /\ UNCHANGED << block_locs, blocks_affected, traffic_flow_routes, traffic_flow_routes_backup,
                    link_bandwidth_usages, link_congestion_costs, delta_c >>
    /\ UNCHANGED << num_moves, num_swap_rejected >> /\ NocModelUnchanged /\ DriverUnchanged
    /\ ScratchUnchanged /\ ProposedUnchanged /\ CallerCopiesUnchanged

NextUnroutedLatency == Next \/ CompNocLatencyCostUnrouted

SpecUnroutedLatency == Init /\ [][NextUnroutedLatency]_vars

-----------------------------------------------------------------------------
(* recompute_costs_from_scratch *)

Abs(a) == IF a < 0 THEN -a ELSE a

\* PL_INCREMENTAL_COST_TOLERANCE, in percent
PL_INCREMENTAL_COST_TOLERANCE == 1

\* vtr::isclose(a, b, rel_tol, 0.): |a - b| <= rel_tol * max(|a|, |b|)
isclose(a, b) == 100 * Abs(a - b) <= PL_INCREMENTAL_COST_TOLERANCE * Max(Abs(a), Abs(b))

\* the cost terms in the order recompute_costs_from_scratch treats them
NocCostTermNames == << "aggregate_bandwidth", "latency", "latency_overrun", "congestion" >>

\* the aggregate bandwidth is always compared; the other terms only when the
\* recomputed value is above the minimum expected cost (below one unit here)
term_is_compared(cost_name, new_cost) ==
    cost_name = "aggregate_bandwidth" \/ new_cost[cost_name] > 0

\* the message check_and_print_cost hands to VPR_ERROR
cost_error_message(cost_name, new_cost, old_cost) ==
    [cost_name |-> cost_name, new_cost |-> new_cost, old_cost |-> old_cost]

\* the terms from position i on: compare, raise on divergence, adopt.
\* VPR_ERROR throws VprError out of the function, unless the error is demoted
\* to a warning, which is logged and lets the function go on
RECURSIVE recompute_costs_from_scratch_from(_, _, _, _, _)
recompute_costs_from_scratch_from(i, new_noc_cost, tracked, log, demoted) ==
    IF i > Len(NocCostTermNames)
    THEN [costs |-> tracked, diagnostics |-> log, thrown |-> FALSE]
    ELSE LET cost_name == NocCostTermNames[i]
             diverges == /\ term_is_compared(cost_name, new_noc_cost)
                         /\ ~isclose(new_noc_cost[cost_name], tracked[cost_name])
             raised == IF diverges
                       THEN log \cup { cost_error_message(cost_name, new_noc_cost[cost_name],
                                                          tracked[cost_name]) }
                       ELSE log
         IN  IF diverges /\ ~demoted
             THEN [costs |-> tracked, diagnostics |-> raised, thrown |-> TRUE]
             ELSE recompute_costs_from_scratch_from(
                      i + 1, new_noc_cost,
                      [tracked EXCEPT ![cost_name] = new_noc_cost[cost_name]],
                      raised, demoted)

\* the caller's running totals have drifted from the cached costs
\* (accumulated error of costs += delta_c) when it comes to recompute them
DriftAmounts == { -1, 1 }

CallerTotalsDrift ==
    /\ phase = "idle"
    /\ costs = recompute_noc_costs
    /\ \E i \in DOMAIN NocCostTermNames : \E d \in DriftAmounts :
          costs' = [costs EXCEPT ![NocCostTermNames[i]] = @ + d]
    /\ phase' = "drifted"
    /\ UNCHANGED << block_locs, blocks_affected, traffic_flow_routes, traffic_flow_routes_backup,
                    link_bandwidth_usages, delta_c >>
    /\ UNCHANGED << num_moves, num_swap_rejected >> /\ NocModelUnchanged /\ DriverUnchanged
    /\ ScratchUnchanged /\ ProposedUnchanged /\ CommittedCostsUnchanged /\ CallerCopiesUnchanged

\* recompute_costs_from_scratch with noc_opts.noc set; the run is followed up
\* to its return or its exception
RecomputeCostsFromScratch ==
    /\ phase \in { "idle", "drifted" }
    /\ \E demoted \in BOOLEAN :
          LET r == recompute_costs_from_scratch_from(1, recompute_noc_costs, costs,
                                                     diagnostics, demoted)
          IN  /\ costs' = r.costs
              /\ diagnostics' = r.diagnostics
              /\ phase' = IF r.thrown THEN "error" ELSE "recomputed"
    /\ UNCHANGED << block_locs, blocks_affected, traffic_flow_routes, traffic_flow_routes_backup,
                    link_bandwidth_usages, delta_c, reinit_seed, noc_cost_norm_factors, has_cycle, noc_placement_file,
                    noc_cost_check, latency_cons_met, flow_reroute_links >> /\ NetlistRouterUnchanged
    /\ UNCHANGED << num_moves, num_swap_rejected >> /\ NocModelUnchanged /\ ProposerUnchanged
    /\ ScratchUnchanged /\ ProposedUnchanged /\ CommittedCostsUnchanged /\ CallerCopiesUnchanged

NextDrift == Next \/ CallerTotalsDrift \/ RecomputeCostsFromScratch

SpecDrift == Init /\ [][NextDrift]_vars

-----------------------------------------------------------------------------
(* get_top_n_congested_links *)

Min(a, b) == IF a < b THEN a ELSE b

\* variant: a comparator that also puts a link before a link of equal usage
congested_before_or_equal(l1, l2, usages) == usages[l1] >= usages[l2]

\* the comparator handed to std::stable_sort
congested_before(l1, l2, usages) == usages[l1] > usages[l2]

\* x goes before the first element the comparator puts it before, so that
\* elements the comparator does not order keep their order
RECURSIVE InsertByUsage(_, _, _)
InsertByUsage(x, sorted, usages) ==
    IF sorted = << >> THEN << x >>
    ELSE IF congested_before(x, Head(sorted), usages) THEN << x >> \o sorted
    ELSE << Head(sorted) >> \o InsertByUsage(x, Tail(sorted), usages)

\* std::stable_sort of links first .. last of the link vector, which holds
\* the links in link-id order
RECURSIVE stable_sort_by_usage(_, _, _)
stable_sort_by_usage(first, last, usages) ==
    IF first > last THEN << >>
    ELSE InsertByUsage(last, stable_sort_by_usage(first, last - 1, usages), usages)

get_top_n_congested_links(n, usages) ==
    LET noc_links == stable_sort_by_usage(0, Cardinality(NocLinkIds) - 1, usages)
        pick_n == Min(Len(noc_links), n)
    IN  SubSeq(noc_links, 1, pick_n)

\* the values of n a caller asks for: none, some, all and more links than
\* the NoC has
TopNArguments == 0 .. Cardinality(NocLinkIds) + 1

\* a query between two handler operations; the run is followed up to its return
GetTopNCongestedLinks ==
    /\ phase \in { "routed", "idle", "dirty" }
    /\ \E n \in TopNArguments :
          congested_links' = [n |-> n, links |-> get_top_n_congested_links(n, link_bandwidth_usages)]
    /\ phase' = "queried"
    /\ UNCHANGED << block_locs, blocks_affected, traffic_flow_routes, traffic_flow_routes_backup,
                    link_bandwidth_usages, costs, delta_c, reinit_seed, diagnostics,
                    is_fixed, router_clusters, proposal, router_swap, noc_cost_norm_factors, has_cycle, noc_placement_file,
                    noc_cost_check, latency_cons_met, flow_reroute_links >> /\ NetlistRouterUnchanged
    /\ UNCHANGED << num_moves, num_swap_rejected >> /\ NocModelUnchanged
    /\ ScratchUnchanged /\ ProposedUnchanged /\ CommittedCostsUnchanged /\ CallerCopiesUnchanged

NextQueries == Next \/ GetTopNCongestedLinks

SpecQueries == Init /\ [][NextQueries]_vars

-----------------------------------------------------------------------------
(* get_number_of_traffic_flows_with_latency_cons_met *)

\* the latency of a route as this function computes it: the NoC-wide link and
\* router latencies times the number of links and of routers
latency_of_links_and_routers(route) ==
    (get_noc_link_latency * Len(route)) + (get_noc_router_latency * (Len(route) + 1))

\* flows with max(0, latency - max_latency) below the minimum expected
\* latency cost (below one unit here)
get_number_of_traffic_flows_with_latency_cons_met(routes) ==
    Cardinality({ f \in NocTrafficFlowIds :
                    Max(0, latency_of_links_and_routers(routes[f])
                               - noc_traffic_flows[f].max_traffic_flow_latency) < 1 })

\* a query between two handler operations; the run is followed up to its return
GetNumberOfTrafficFlowsWithLatencyConsMet ==
    /\ phase \in { "idle", "dirty" }
    /\ latency_cons_met' =
           [counted |-> TRUE,
            count |-> get_number_of_traffic_flows_with_latency_cons_met(traffic_flow_routes)]
    /\ phase' = "latency_counted"
    /\ UNCHANGED << block_locs, blocks_affected, traffic_flow_routes, traffic_flow_routes_backup,
                    link_bandwidth_usages, costs, delta_c, reinit_seed, diagnostics,
                    noc_cost_norm_factors, noc_placement_file, has_cycle, noc_cost_check,
                    flow_reroute_links >>
    /\ NetlistRouterUnchanged
    /\ UNCHANGED << num_moves, num_swap_rejected >> /\ NocModelUnchanged /\ ProposerUnchanged
    /\ ScratchUnchanged /\ ProposedUnchanged /\ CommittedCostsUnchanged /\ CallerCopiesUnchanged

NextLatencyCons == Next \/ GetNumberOfTrafficFlowsWithLatencyConsMet

SpecLatencyCons == Init /\ [][NextLatencyCons]_vars

-----------------------------------------------------------------------------
(* noc_routing_has_cycle *)

\* ChannelDependencyGraph: an edge from a link to the link that follows it in
\* some route
channel_dependency_graph(routes) ==
    UNION { { << routes[f][i], routes[f][i + 1] >> : i \in 1 .. Len(routes[f]) - 1 } :
            f \in NocTrafficFlowIds }

\* depth-first search from a link; on_stack holds the links of the path so far
RECURSIVE depth_first_search_finds_cycle(_, _, _)
depth_first_search_finds_cycle(link, on_stack, graph) ==
    \E next \in { l \in NocLinkIds : << link, l >> \in graph } :
        \/ next \in on_stack
        \/ depth_first_search_finds_cycle(next, on_stack \cup { next }, graph)

\* ChannelDependencyGraph::has_cycles
has_cycles(graph) ==
    \E link \in NocLinkIds : depth_first_search_finds_cycle(link, { link }, graph)

\* the free function
noc_routing_has_cycle(routes) == has_cycles(channel_dependency_graph(routes))

\* routes for the initial placement found by a router outside the handler
\* that may turn back on a link: flow 2 goes 2 -> 3 -> 0 -> 1 -> 0 or
\* 2 -> 3 -> 0, flow 1 goes 1 -> 0 -> 1 -> 2 or 1 -> 2
ExternalRoutes ==
    { [f \in NocTrafficFlowIds |->
          CASE f = 0 -> << 0 >>
            [] f = 1 -> r1
            [] f = 2 -> r2] :
      r1 \in { << 1 >>, << 4, 0, 1 >> }, r2 \in { << 2, 3 >>, << 2, 3, 0, 4 >> } }

\* reinitialize_noc_routing with routes of an external router, before any move
ReinitializeNocRoutingExternally ==
    /\ phase \in { "routed", "idle" }
    /\ block_locs = InitialBlockLocs
    /\ num_moves = 0
    /\ \E new_traffic_flow_routes \in ExternalRoutes :
          LET r == initial_noc_routing(new_traffic_flow_routes, traffic_flow_routes,
                                       [l \in NocLinkIds |-> 0])
          IN  /\ traffic_flow_routes' = r.routes
              /\ link_bandwidth_usages' = r.usages
              /\ reinit_seed' = [given |-> TRUE, new_traffic_flow_routes |-> new_traffic_flow_routes]
    /\ traffic_flow_costs' = comp_noc_flow_costs(traffic_flow_routes')
    /\ link_congestion_costs' = comp_noc_congestion_cost(link_bandwidth_usages')
    /\ costs' = sum_noc_costs(traffic_flow_costs', link_congestion_costs')
    /\ phase' = "externally_routed"
    /\ UNCHANGED << block_locs, blocks_affected, traffic_flow_routes_backup, delta_c >>
    /\ UNCHANGED << num_moves, num_swap_rejected >> /\ NocModelUnchanged /\ ProposerUnchanged
    /\ UNCHANGED << diagnostics, noc_cost_norm_factors, has_cycle, noc_placement_file,
                    noc_cost_check, latency_cons_met, flow_reroute_links >> /\ NetlistRouterUnchanged
    /\ ScratchUnchanged /\ ProposedUnchanged /\ CallerCopiesUnchanged

\* variant: the member hands the backup routes to the free function
NocRoutingHasCycleOfBackup ==
    /\ phase \in { "idle", "dirty", "externally_routed" }
    /\ has_cycle' = [checked |-> TRUE,
                     result |-> noc_routing_has_cycle(traffic_flow_routes_backup)]
    /\ phase' = "cycle_checked"
    /\ UNCHANGED << block_locs, blocks_affected, traffic_flow_routes, traffic_flow_routes_backup,
                    link_bandwidth_usages, costs, delta_c, reinit_seed, diagnostics,
                    noc_cost_norm_factors, noc_placement_file, noc_cost_check, latency_cons_met, flow_reroute_links >> /\ NetlistRouterUnchanged
    /\ UNCHANGED << num_moves, num_swap_rejected >> /\ NocModelUnchanged /\ ProposerUnchanged
    /\ ScratchUnchanged /\ ProposedUnchanged /\ CommittedCostsUnchanged /\ CallerCopiesUnchanged

\* NocCostHandler::noc_routing_has_cycle, between two handler operations; the
\* run is followed up to its return
NocRoutingHasCycle ==
    /\ phase \in { "idle", "dirty", "externally_routed" }
    /\ has_cycle' = [checked |-> TRUE,
                     result |-> noc_routing_has_cycle(traffic_flow_routes)]
    /\ phase' = "cycle_checked"
    /\ UNCHANGED << block_locs, blocks_affected, traffic_flow_routes, traffic_flow_routes_backup,
                    link_bandwidth_usages, costs, delta_c, reinit_seed, diagnostics,
                    noc_cost_norm_factors, noc_placement_file, noc_cost_check, latency_cons_met, flow_reroute_links >> /\ NetlistRouterUnchanged
    /\ UNCHANGED << num_moves, num_swap_rejected >> /\ NocModelUnchanged /\ ProposerUnchanged
    /\ ScratchUnchanged /\ ProposedUnchanged /\ CommittedCostsUnchanged /\ CallerCopiesUnchanged

NextCycles == Next \/ ReinitializeNocRoutingExternally \/ NocRoutingHasCycle

SpecCycles == Init /\ [][NextCycles]_vars

-----------------------------------------------------------------------------
(* write_noc_placement_file *)

\* clb_nlist.block_name: the names of the fixture's blocks, one character
\* per element
block_name(b) ==
    CASE b = 0 -> << "n", "o", "c", "_", "a" >>
      [] b = 1 -> << "b", "1" >>
      [] b = 2 -> << "r", "2", "0" >>
      [] b = 3 -> << "c", "l", "b" >>

DecimalDigits == << "0", "1", "2", "3", "4", "5", "6", "7", "8", "9" >>

\* operator<< of an integer that is not negative: its decimal digits
RECURSIVE insert_decimal(_)
insert_decimal(n) ==
    IF n < 10
    THEN << DecimalDigits[n + 1] >>
    ELSE insert_decimal(n \div 10) \o << DecimalDigits[(n % 10) + 1] >>

\* variant: the router id is written before the layer
RECURSIVE write_noc_placement_file_router_first(_, _, _)
write_noc_placement_file_router_first(clusters, locs, opened) ==
    IF ~opened \/ clusters = << >> THEN << >>
    ELSE LET single_cluster_id == Head(clusters)
             cluster_name == block_name(single_cluster_id)
             cluster_location == locs[single_cluster_id]
             physical_router_cluster_is_placed_on == get_router_at_grid_location(cluster_location)
         IN  cluster_name \o << " " >> \o insert_decimal(physical_router_cluster_is_placed_on)
                 \o << " " >> \o insert_decimal(cluster_location[3]) \o << "\n" >>
                 \o write_noc_placement_file_router_first(Tail(clusters), locs, opened)

\* the characters the file holds when the function returns; a stream that
\* failed to open takes none
RECURSIVE write_noc_placement_file(_, _, _)
write_noc_placement_file(clusters, locs, opened) ==
    IF ~opened \/ clusters = << >> THEN << >>
    ELSE LET single_cluster_id == Head(clusters)
             cluster_name == block_name(single_cluster_id)
             cluster_location == locs[single_cluster_id]
             physical_router_cluster_is_placed_on == get_router_at_grid_location(cluster_location)
         IN  cluster_name \o << " " >> \o insert_decimal(cluster_location[3])
                 \o << " " >> \o insert_decimal(physical_router_cluster_is_placed_on) \o << "\n" >>
                 \o write_noc_placement_file(Tail(clusters), locs, opened)

WriteNocPlacementFile ==
    /\ noc_placement_file = NoPlacementFile
    /\ \E opened \in BOOLEAN :
          noc_placement_file' =
              [written |-> TRUE, opened |-> opened,
               contents |-> write_noc_placement_file(router_clusters, block_locs, opened)]
    /\ UNCHANGED << block_locs, blocks_affected, traffic_flow_routes, traffic_flow_routes_backup,
                    link_bandwidth_usages, costs, delta_c, phase, num_moves, num_swap_rejected,
                    reinit_seed, diagnostics, noc_cost_norm_factors, has_cycle, noc_cost_check, latency_cons_met, flow_reroute_links >> /\ NetlistRouterUnchanged
    /\ NocModelUnchanged /\ ProposerUnchanged /\ ScratchUnchanged /\ ProposedUnchanged
    /\ CommittedCostsUnchanged /\ CallerCopiesUnchanged

\* the final placements: the three router clusters on distinct router tiles
FinalBlockLocs ==
    { locs \in [ClusterBlockIds -> RouterTiles \cup LogicTiles] :
          /\ locs[3] = InitialBlockLocs[3]
          /\ \A b \in 0 .. 2 : locs[b] \in RouterTiles
          /\ \A b, c \in 0 .. 2 : b /= c => locs[b] /= locs[c] }

\* the writer on its own: any final placement, any netlist order of the
\* router clusters
InitWriter ==
    /\ block_locs \in FinalBlockLocs
    /\ blocks_affected = << >>
    /\ noc_routing_algorithm = "clockwise"
    /\ detailed_link_latency = FALSE
    /\ detailed_router_latency = FALSE
    /\ Constructed
    /\ affected_traffic_flows = << >>
    /\ affected_noc_links = {}
    /\ updated_traffic_flows = {}
    /\ todo = << >>
    /\ half_done = FALSE
    /\ costs = ZeroCostTerms
    /\ delta_c = ZeroCostTerms
    /\ phase = "constructed"
    /\ num_moves = 0
    /\ num_swap_rejected = 0
    /\ saved_routes = [f \in NocTrafficFlowIds |-> << >>]
    /\ saved_usages = [l \in NocLinkIds |-> 0]
    /\ first_delta_c = NoDelta
    /\ reinit_seed = NoSeed
    /\ diagnostics = {}
    /\ congested_links = NoQuery
    /\ is_fixed = [b \in ClusterBlockIds |-> FALSE]
    /\ router_clusters \in { << >>, << 1 >>, << 0, 1, 2 >>, << 2, 0, 1 >> }
    /\ proposal = NoProposal
    /\ router_swap = NoRouterSwapCheck
    /\ noc_cost_norm_factors = NoNormFactors
    /\ has_cycle = NoCycleCheck
    /\ noc_placement_file = NoPlacementFile
    /\ noc_cost_check = NoCostCheck
    /\ latency_cons_met = NoLatencyCount
    /\ flow_reroute_links = NoAffectedLinksCall
    /\ NetlistRouterConstructed

NextWriter == WriteNocPlacementFile

SpecWriter == InitWriter /\ [][NextWriter]_vars

-----------------------------------------------------------------------------
(* update_noc_normalization_factors *)

\* A double that is a quotient is kept exact as num / den with den >= 0;
\* den = 0 is +infinity, the value of 1 / 0.0 in IEEE 754 arithmetic.
Quotient(num, den) == [num |-> num, den |-> den]

less_than(a, b) == a.num * b.den < b.num * a.den

\* std::min(a, b): b if b < a, else a
std_min(a, b) == IF less_than(b, a) THEN b ELSE a

\* 1 / term for a term held in units of 1 / unit
reciprocal(term, unit) ==
    IF term < 0 THEN Quotient(-unit, -term) ELSE Quotient(unit, term)

\* the caps of the factors, in the units of the model's cost terms
MAX_INV_NOC_AGGREGATE_BANDWIDTH_COST == Quotient(1, 1)
MAX_INV_NOC_LATENCY_COST == Quotient(1, 2)
MAX_INV_NOC_CONGESTION_COST == Quotient(5, 1)

\* variant: every factor is min(1 / term, MAX_INV_*), no term is tested
update_noc_normalization_factors_unguarded(c) ==
    [updated |-> TRUE,
     aggregate_bandwidth |-> std_min(reciprocal(c.aggregate_bandwidth, 1),
                                     MAX_INV_NOC_AGGREGATE_BANDWIDTH_COST),
     latency |-> std_min(reciprocal(c.latency, 1), MAX_INV_NOC_LATENCY_COST),
     latency_overrun |-> std_min(reciprocal(c.latency_overrun, 1), MAX_INV_NOC_LATENCY_COST),
     congestion |-> std_min(reciprocal(c.congestion, CongestionDenominator),
                            MAX_INV_NOC_CONGESTION_COST)]

update_noc_normalization_factors(c) ==
    [updated |-> TRUE,
     aggregate_bandwidth |-> std_min(reciprocal(c.aggregate_bandwidth, 1),
                                     MAX_INV_NOC_AGGREGATE_BANDWIDTH_COST),
     latency |-> std_min(reciprocal(c.latency, 1), MAX_INV_NOC_LATENCY_COST),
     latency_overrun |->
         IF c.latency_overrun > 0
         THEN std_min(reciprocal(c.latency_overrun, 1), MAX_INV_NOC_LATENCY_COST)
         ELSE MAX_INV_NOC_LATENCY_COST,
     congestion |->
         IF c.congestion > 0
         THEN std_min(reciprocal(c.congestion, CongestionDenominator),
                      MAX_INV_NOC_CONGESTION_COST)
         ELSE MAX_INV_NOC_CONGESTION_COST]

\* the totals the placer may hand over: sums of flow costs that are never
\* negative, and an overrun and a congestion total that round-off may have
\* left a little below zero
NormalizedCostTerms ==
    [aggregate_bandwidth : 0 .. 3, latency : 0 .. 3,
     latency_overrun : -1 .. 3, congestion : -1 .. 3]

UpdateNocNormalizationFactors ==
    /\ phase = "constructed"
    /\ noc_cost_norm_factors = NoNormFactors
    /\ noc_cost_norm_factors' = update_noc_normalization_factors(costs)
    /\ UNCHANGED << block_locs, blocks_affected, traffic_flow_routes, traffic_flow_routes_backup,
                    link_bandwidth_usages, costs, delta_c, phase, num_moves, num_swap_rejected,
                    reinit_seed, diagnostics, has_cycle, noc_placement_file, noc_cost_check, latency_cons_met, flow_reroute_links >> /\ NetlistRouterUnchanged
    /\ NocModelUnchanged /\ ProposerUnchanged /\ ScratchUnchanged /\ ProposedUnchanged
    /\ CommittedCostsUnchanged /\ CallerCopiesUnchanged

\* the function on its own: any totals, the handler as constructed
InitNormalization ==
    /\ block_locs = InitialBlockLocs
    /\ blocks_affected = << >>
    /\ noc_routing_algorithm = "clockwise"
    /\ detailed_link_latency = FALSE
    /\ detailed_router_latency = FALSE
    /\ Constructed
    /\ affected_traffic_flows = << >>
    /\ affected_noc_links = {}
    /\ updated_traffic_flows = {}
    /\ todo = << >>
    /\ half_done = FALSE
    /\ costs \in NormalizedCostTerms
    /\ delta_c = ZeroCostTerms
    /\ phase = "constructed"
    /\ num_moves = 0
    /\ num_swap_rejected = 0
    /\ saved_routes = [f \in NocTrafficFlowIds |-> << >>]
    /\ saved_usages = [l \in NocLinkIds |-> 0]
    /\ first_delta_c = NoDelta
    /\ HandlerUnderTest
    /\ flow_reroute_links = NoAffectedLinksCall

NextNormalization == UpdateNocNormalizationFactors

SpecNormalization == InitNormalization /\ [][NextNormalization]_vars

-----------------------------------------------------------------------------
(* The move proposer: check_for_router_swap and propose_router_swap *)

\* vtr::RngContainer::irand(imax): an integer in [0, imax]
irand(imax) == 0 .. imax

\* variant: a router swap also when the draw equals the percentage
check_for_router_swap_inclusive(user_supplied_noc_router_swap_percentage, draw) ==
    draw <= user_supplied_noc_router_swap_percentage

\* draw is the value of rng.irand(99)
check_for_router_swap(user_supplied_noc_router_swap_percentage, draw) ==
    draw < user_supplied_noc_router_swap_percentage

\* the percentages a user supplies
SwapPercentages == { 0, 1, 50, 99, 100 }

\* variant: selection that does not look at is_fixed
select_random_router_cluster_ignoring_fixed(clusters, fixed, locs, draw) ==
    IF clusters = << >>
    THEN [success |-> FALSE]
    ELSE [success |-> TRUE, b_from |-> clusters[draw + 1], from |-> locs[clusters[draw + 1]]]

\* draw is the value of rng.irand(number_of_router_blocks - 1)
select_random_router_cluster(clusters, fixed, locs, draw) ==
    IF clusters = << >>
    THEN [success |-> FALSE]
    ELSE LET b_from == clusters[draw + 1]
         IN  IF fixed[b_from]
             THEN [success |-> FALSE]
             ELSE [success |-> TRUE, b_from |-> b_from, from |-> locs[b_from]]

\* the range limits the annealer passes
RangeLimits == 0 .. 1

\* find_to_loc_uniform: the compatible tiles other than from, on the layer of
\* from, at most rlim away in x and in y
compatible_locs_within(rlim, from) ==
    { to \in RouterTiles \ { from } :
         /\ to[3] = from[3]
         /\ Abs(to[1] - from[1]) <= rlim
         /\ Abs(to[2] - from[2]) <= rlim }

\* create_move: lists the block and the block it changes places with; ABORT,
\* with nothing listed, when that block is fixed
create_move(b_from, from, to, locs, fixed) ==
    LET occupants == { c \in ClusterBlockIds : locs[c] = to }
    IN  IF \E c \in occupants : fixed[c]
        THEN [create_move |-> "ABORT", moved_blocks |-> << >>]
        ELSE [create_move |-> "VALID",
              moved_blocks |-> IF occupants = {}
                               THEN << moved_block(b_from, from, to) >>
                               ELSE << moved_block(b_from, from, to),
                                       moved_block(CHOOSE c \in occupants : TRUE, to, from) >>]

\* propose_router_swap for the draws of the rng (cluster_draw picks the
\* cluster, to is the location find_to_loc_uniform picks among the candidates)
\* and the answer of floorplan_legal
propose_router_swap(clusters, fixed, locs, cluster_draw, candidates, to, legal) ==
    LET selected == select_random_router_cluster(clusters, fixed, locs, cluster_draw)
    IN  IF ~selected.success
        THEN [create_move |-> "ABORT", moved_blocks |-> << >>]
        ELSE IF candidates = {}
        THEN [create_move |-> "ABORT", moved_blocks |-> << >>]
        ELSE LET created == create_move(selected.b_from, selected.from, to, locs, fixed)
             IN  IF ~legal
                 THEN [create_move |-> "ABORT", moved_blocks |-> created.moved_blocks]
                 ELSE created

\* the draws irand(number_of_router_blocks - 1) can give; the draw is not
\* made when there is no router cluster
ClusterDraws == IF router_clusters = << >> THEN { 0 } ELSE irand(Len(router_clusters) - 1)

HandlerUntouched ==
    /\ UNCHANGED << block_locs, traffic_flow_routes, traffic_flow_routes_backup, link_bandwidth_usages,
                    costs, delta_c, phase, num_moves, num_swap_rejected, reinit_seed, diagnostics,
                    is_fixed, router_clusters, congested_links, noc_cost_norm_factors, has_cycle, noc_placement_file,
                    noc_cost_check, latency_cons_met, flow_reroute_links >> /\ NetlistRouterUnchanged
    /\ NocModelUnchanged /\ ScratchUnchanged /\ ProposedUnchanged /\ CommittedCostsUnchanged
    /\ CallerCopiesUnchanged

\* a placer step starts: the last move is cleared and the rng decides
\* whether a router swap is proposed (if not, another move generator, not
\* modelled here, takes the step)
CheckForRouterSwap ==
    /\ router_swap = NoRouterSwapCheck
    /\ \E percentage \in SwapPercentages : \E draw \in irand(99) :
          router_swap' = [checked |-> TRUE, percentage |-> percentage, draw |-> draw,
                          result |-> check_for_router_swap(percentage, draw)]
    /\ proposal' = NoProposal
    /\ blocks_affected' = << >>
    /\ HandlerUntouched

ProposeRouterSwap ==
    /\ router_swap /= NoRouterSwapCheck
    /\ router_swap.result
    /\ \E cluster_draw \in ClusterDraws : \E rlim \in RangeLimits : \E legal \in BOOLEAN :
          LET selected == select_random_router_cluster(router_clusters, is_fixed, block_locs,
                                                       cluster_draw)
              candidates == IF selected.success
                            THEN compatible_locs_within(rlim, selected.from)
                            ELSE {}
          IN  \E to \in (IF candidates = {} THEN { << >> } ELSE candidates) :
                 LET r == propose_router_swap(router_clusters, is_fixed, block_locs,
                                              cluster_draw, candidates, to, legal)
                 IN  /\ blocks_affected' = r.moved_blocks
                     /\ proposal' = [create_move |-> r.create_move,
                                     cluster_draw |-> cluster_draw, rlim |-> rlim,
                                     to |-> to, legal |-> legal]
    /\ router_swap' = NoRouterSwapCheck
    /\ HandlerUntouched

\* the proposer on its own: any netlist order of router clusters, any blocks fixed
InitProposer ==
    /\ block_locs = InitialBlockLocs
    /\ blocks_affected = << >>
    /\ noc_routing_algorithm = "clockwise"
    /\ detailed_link_latency = FALSE
    /\ detailed_router_latency = FALSE
    /\ Constructed
    /\ affected_traffic_flows = << >>
    /\ affected_noc_links = {}
    /\ updated_traffic_flows = {}
    /\ todo = << >>
    /\ half_done = FALSE
    /\ costs = ZeroCostTerms
    /\ delta_c = ZeroCostTerms
    /\ phase = "constructed"
    /\ num_moves = 0
    /\ num_swap_rejected = 0
    /\ saved_routes = [f \in NocTrafficFlowIds |-> << >>]
    /\ saved_usages = [l \in NocLinkIds |-> 0]
    /\ first_delta_c = NoDelta
    /\ reinit_seed = NoSeed
    /\ diagnostics = {}
    /\ congested_links = NoQuery
    /\ is_fixed \in [ClusterBlockIds -> BOOLEAN]
    /\ router_clusters \in { << >>, << 1 >>, << 0, 1, 2 >>, << 2, 0, 1 >> }
    /\ proposal = NoProposal
    /\ router_swap = NoRouterSwapCheck
    /\ noc_cost_norm_factors = NoNormFactors
    /\ has_cycle = NoCycleCheck
    /\ noc_placement_file = NoPlacementFile
    /\ noc_cost_check = NoCostCheck
    /\ latency_cons_met = NoLatencyCount
    /\ flow_reroute_links = NoAffectedLinksCall
    /\ NetlistRouterConstructed

NextProposer == CheckForRouterSwap \/ ProposeRouterSwap

SpecProposer == InitProposer /\ [][NextProposer]_vars

-----------------------------------------------------------------------------
(* Scenarios outside the transaction protocol *)

\* a second evaluate_delta on the same move with no commit or revert in
\* between, the first having been made on the freshly initialised state; the
\* caller keeps the first call's delta terms
SecondEvaluateBegin ==
    /\ phase = "dirty"
    /\ num_moves = 1
    /\ num_swap_rejected = 0
    /\ first_delta_c = NoDelta
    /\ first_delta_c' = delta_c
    /\ find_affected_entry

\* the second of two consecutive evaluate_delta calls has returned
SecondEvaluateReturned == phase = "dirty" /\ first_delta_c /= NoDelta

\* the run ends when the second call has returned
NextNested ==
    \/ SecondEvaluateBegin
    \/ ~SecondEvaluateReturned /\ Next

SpecNested == Init /\ [][NextNested]_vars

-----------------------------------------------------------------------------
(* check_noc_placement_costs *)

\* the terms from position i on that are compared and differ by more than the
\* tolerance (in percent) of the tracked value; VTR_LOG_ERROR only logs
RECURSIVE placement_cost_errors_from(_, _, _, _)
placement_cost_errors_from(i, cost_check, tracked, error_tolerance) ==
    IF i > Len(NocCostTermNames) THEN 0
    ELSE LET cost_name == NocCostTermNames[i]
         IN  (IF /\ term_is_compared(cost_name, cost_check)
                 /\ 100 * Abs(cost_check[cost_name] - tracked[cost_name])
                        > tracked[cost_name] * error_tolerance
              THEN 1 ELSE 0)
             + placement_cost_errors_from(i + 1, cost_check, tracked, error_tolerance)

\* every flow is routed afresh for the placement locs, the usage is counted on
\* a temporary vector, the four totals are rebuilt and compared
check_noc_placement_costs(tracked, error_tolerance, locs) ==
    LET temp_found_noc_route == [f \in NocTrafficFlowIds |-> route_traffic_flow(f, locs)]
        temp_noc_link_bw_usage ==
            [l \in NocLinkIds |->
                SumOver(NocTrafficFlowIds,
                        [f \in NocTrafficFlowIds |->
                            noc_traffic_flows[f].traffic_flow_bandwidth
                            * Cardinality({ i \in DOMAIN temp_found_noc_route[f] :
                                              temp_found_noc_route[f][i] = l })])]
        cost_check ==
            [aggregate_bandwidth |->
                 SumOver(NocTrafficFlowIds,
                         [f \in NocTrafficFlowIds |->
                             calculate_traffic_flow_aggregate_bandwidth_cost(
                                 temp_found_noc_route[f], noc_traffic_flows[f])]),
             latency |->
                 SumOver(NocTrafficFlowIds,
                         [f \in NocTrafficFlowIds |->
                             calculate_traffic_flow_latency_cost(
                                 temp_found_noc_route[f], noc_traffic_flows[f])[1]]),
             latency_overrun |->
                 SumOver(NocTrafficFlowIds,
                         [f \in NocTrafficFlowIds |->
                             calculate_traffic_flow_latency_cost(
                                 temp_found_noc_route[f], noc_traffic_flows[f])[2]]),
             congestion |->
                 SumOver(NocLinkIds,
                         [l \in NocLinkIds |->
                             (Max(temp_noc_link_bw_usage[l] - get_bandwidth(l), 0)
                                  * CongestionDenominator) \div get_bandwidth(l)])]
    IN  [error |-> placement_cost_errors_from(1, cost_check, tracked, error_tolerance),
         cost_check |-> cost_check]

\* the tolerances the caller passes, in percent
ErrorTolerances == { 0, PL_INCREMENTAL_COST_TOLERANCE }

\* check_noc_placement_costs, called between transactions or on a move that
\* has been evaluated and not yet committed or reverted; the run ends
CheckNocPlacementCosts ==
    /\ phase \in { "idle", "dirty" }
    /\ \E error_tolerance \in ErrorTolerances :
          noc_cost_check' =
              [checked |-> TRUE,
               called_in |-> phase,
               error_tolerance |-> error_tolerance,
               error |-> check_noc_placement_costs(costs, error_tolerance, block_locs).error]
    /\ phase' = "cost_checked"
    /\ UNCHANGED << block_locs, blocks_affected, traffic_flow_routes, traffic_flow_routes_backup,
                    link_bandwidth_usages, costs, delta_c, reinit_seed, diagnostics,
                    noc_cost_norm_factors, noc_placement_file, has_cycle, latency_cons_met, flow_reroute_links >>
    /\ NetlistRouterUnchanged
    /\ UNCHANGED << num_moves, num_swap_rejected >> /\ NocModelUnchanged /\ ProposerUnchanged
    /\ ScratchUnchanged /\ ProposedUnchanged /\ CommittedCostsUnchanged /\ CallerCopiesUnchanged

\* the caller hands over no seed routes: initial routing and re-initialisation
\* route every flow with the routing algorithm
RoutedWithoutSeed ==
    (phase \in { "constructed", "routed", "idle" } /\ phase' \in { "routed", "idle" })
        => traffic_flow_routes' = [f \in NocTrafficFlowIds |-> route_traffic_flow(f, block_locs)]

NextCheck ==
    \/ CheckNocPlacementCosts
    \/ Next /\ RoutedWithoutSeed

SpecCheck == Init /\ [][NextCheck]_vars

-----------------------------------------------------------------------------
(* ParallelNetlistRouter: route_netlist and route_partition_tree_node        *)
(* (vpr/src/route/ParallelNetlistRouter.tpp).  The nodes of the partition    *)
(* tree are numbered like a heap: the root is 1, the branches of n are 2n    *)
(* and 2n + 1.                                                               *)

\* the state of the placer, which the router does not touch
noc_place_vars ==
    << block_locs, blocks_affected, noc_routing_algorithm, detailed_link_latency,
       detailed_router_latency, traffic_flow_routes, traffic_flow_routes_backup,
       traffic_flow_costs, proposed_traffic_flow_costs, link_bandwidth_usages,
       link_congestion_costs, proposed_link_congestion_costs, affected_traffic_flows,
       affected_noc_links, updated_traffic_flows, todo, half_done, costs, delta_c,
       phase, num_moves, num_swap_rejected, saved_routes, saved_usages, first_delta_c,
       reinit_seed, diagnostics, is_fixed, router_clusters, congested_links, proposal,
       router_swap, noc_cost_norm_factors, has_cycle, noc_placement_file,
       noc_cost_check, latency_cons_met, flow_reroute_links >>

\* PartitionTree(_net_list): the trees of the fixtures, each node with its
\* nets in the order the stable sort by number of sinks leaves them
PartitionTrees ==
    { [built |-> TRUE, nets |-> (1 :> << 1, 2 >>)],
      [built |-> TRUE, nets |-> (1 :> << 1 >> @@ 2 :> << 2, 3 >> @@ 3 :> << 4 >>)],
      [built |-> TRUE, nets |-> (1 :> << 1 >> @@ 2 :> << 2 >> @@ 3 :> << 3, 4 >>
                                   @@ 4 :> << 5 >> @@ 5 :> << >>)] }

root == 1
left(node) == 2 * node
right(node) == 2 * node + 1
Nodes(t) == DOMAIN t.nets
NetsOf(t) == UNION { Range(t.nets[n]) : n \in Nodes(t) }

\* the answers of route_net the node function tells apart
RouteNetFlags ==
    { [success |-> TRUE, retry_with_full_bb |-> FALSE, was_rerouted |-> TRUE],
      [success |-> TRUE, retry_with_full_bb |-> FALSE, was_rerouted |-> FALSE],
      [success |-> FALSE, retry_with_full_bb |-> TRUE, was_rerouted |-> FALSE],
      [success |-> FALSE, retry_with_full_bb |-> FALSE, was_rerouted |-> FALSE] }

\* route_partition_tree_node(g, node) at the head of its loop over the nets
NodeTask(node) == [node |-> node, next |-> 1, in_route_net |-> FALSE]

\* the thread leaves route_partition_tree_node; the caller of route_netlist
\* goes on to group.wait()
TaskReturns(t) ==
    /\ thread_task' = [thread_task EXCEPT ![t] = NoTask]
    /\ router_pc' = IF t = "caller" THEN "waiting" ELSE router_pc

\* route_netlist up to the call of route_partition_tree_node for the root
RouteNetlist ==
    /\ router_pc = "idle"
    /\ route_iter_results = NoRouteIterResults
    /\ results_th' = [t \in RouterThreads |-> RouteIterResults]
    /\ IF tree.built THEN tree' = tree ELSE tree' \in PartitionTrees
    /\ route_net_log' = [net \in NetsOf(tree') |-> << >>]
    /\ spawned' = { root }
    /\ thread_task' = [thread_task EXCEPT !["caller"] = NodeTask(root)]
    /\ router_pc' = "root"
    /\ UNCHANGED << task_group, route_iter_results >>
    /\ UNCHANGED noc_place_vars

\* the loop reaches a net and calls route_net
RouteNetBegin(t) ==
    /\ thread_task[t] /= NoTask
    /\ ~thread_task[t].in_route_net
    /\ thread_task[t].next <= Len(tree.nets[thread_task[t].node])
    /\ thread_task' = [thread_task EXCEPT ![t].in_route_net = TRUE]
    /\ UNCHANGED << tree, router_pc, task_group, results_th, spawned, route_net_log,
                    route_iter_results >>
    /\ UNCHANGED noc_place_vars

\* variant: a failed net is noted and the loop goes on
RouteNetEndWithoutReturn(t) ==
    /\ thread_task[t] /= NoTask
    /\ thread_task[t].in_route_net
    /\ LET net_id == tree.nets[thread_task[t].node][thread_task[t].next]
       IN  \E flags \in RouteNetFlags :
              /\ route_net_log' = [route_net_log EXCEPT ![net_id] = Append(@, flags)]
              /\ thread_task' = [thread_task EXCEPT ![t].in_route_net = FALSE,
                                                    ![t].next = @ + 1]
              /\ router_pc' = router_pc
              /\ IF ~flags.success /\ ~flags.retry_with_full_bb
                 THEN results_th' = [results_th EXCEPT ![t].is_routable = FALSE]
                 ELSE IF flags.retry_with_full_bb
                 THEN results_th' = [results_th EXCEPT ![t].bb_updated_nets = Append(@, net_id)]
                 ELSE IF flags.was_rerouted
                 THEN results_th' = [results_th EXCEPT ![t].rerouted_nets = Append(@, net_id)]
                 ELSE results_th' = results_th
    /\ UNCHANGED << tree, task_group, spawned, route_iter_results >>
    /\ UNCHANGED noc_place_vars

\* route_net returns its flags: a net that can not be routed ends the node
\* function, a net to retry has its bounding box grown, a rerouted net is noted
RouteNetEnd(t) ==
    /\ thread_task[t] /= NoTask
    /\ thread_task[t].in_route_net
    /\ LET net_id == tree.nets[thread_task[t].node][thread_task[t].next]
       IN  \E flags \in RouteNetFlags :
              /\ route_net_log' = [route_net_log EXCEPT ![net_id] = Append(@, flags)]
              /\ IF ~flags.success /\ ~flags.retry_with_full_bb
                 THEN /\ results_th' = [results_th EXCEPT ![t].is_routable = FALSE]
                      /\ TaskReturns(t)
                 ELSE /\ thread_task' = [thread_task EXCEPT ![t].in_route_net = FALSE,
                                                            ![t].next = @ + 1]
                      /\ router_pc' = router_pc
                      /\ IF flags.retry_with_full_bb
                         THEN results_th' = [results_th EXCEPT
                                                ![t].bb_updated_nets = Append(@, net_id)]
                         ELSE IF flags.was_rerouted
                         THEN results_th' = [results_th EXCEPT
                                                ![t].rerouted_nets = Append(@, net_id)]
                         ELSE results_th' = results_th
    /\ UNCHANGED << tree, task_group, spawned, route_iter_results >>
    /\ UNCHANGED noc_place_vars

\* variant: the branches are handed to the task group before the loop over
\* the nets of the node
SpawnBranchesFirst(t) ==
    /\ thread_task[t] /= NoTask
    /\ ~thread_task[t].in_route_net
    /\ LET node == thread_task[t].node
       IN  \/ /\ thread_task[t].next = 1
              /\ left(node) \in Nodes(tree) /\ right(node) \in Nodes(tree)
              /\ left(node) \notin spawned
              /\ task_group' = task_group \cup { left(node), right(node) }
              /\ spawned' = spawned \cup { left(node), right(node) }
              /\ UNCHANGED << thread_task, router_pc >>
           \/ /\ thread_task[t].next > Len(tree.nets[node])
              /\ (left(node) \in Nodes(tree) => left(node) \in spawned)
              /\ TaskReturns(t)
              /\ UNCHANGED << task_group, spawned >>
    /\ UNCHANGED << tree, results_th, route_net_log, route_iter_results >>
    /\ UNCHANGED noc_place_vars

\* the loop is over: the node is finished, its left and right branches are
\* added to the task group, and the node function returns
SpawnBranches(t) ==
    /\ thread_task[t] /= NoTask
    /\ ~thread_task[t].in_route_net
    /\ thread_task[t].next > Len(tree.nets[thread_task[t].node])
    /\ LET node == thread_task[t].node
       IN  IF left(node) \in Nodes(tree) /\ right(node) \in Nodes(tree)
           THEN /\ task_group' = task_group \cup { left(node), right(node) }
                /\ spawned' = spawned \cup { left(node), right(node) }
           ELSE UNCHANGED << task_group, spawned >>
    /\ TaskReturns(t)
    /\ UNCHANGED << tree, results_th, route_net_log, route_iter_results >>
    /\ UNCHANGED noc_place_vars

\* a thread of the arena (the caller only inside group.wait()) takes a task
\* of the group and runs it
RunTask(t) ==
    /\ thread_task[t] = NoTask
    /\ t = "caller" => router_pc = "waiting"
    /\ \E node \in task_group :
          /\ task_group' = task_group \ { node }
          /\ thread_task' = [thread_task EXCEPT ![t] = NodeTask(node)]
    /\ UNCHANGED << tree, router_pc, results_th, spawned, route_net_log, route_iter_results >>
    /\ UNCHANGED noc_place_vars

\* the results of the threads combined
combine_results(results) ==
    [returned |-> TRUE,
     rerouted_nets |-> results["caller"].rerouted_nets \o results["worker"].rerouted_nets,
     bb_updated_nets |-> results["caller"].bb_updated_nets \o results["worker"].bb_updated_nets,
     is_routable |-> results["caller"].is_routable /\ results["worker"].is_routable]

\* variant: the results are combined as soon as the root has returned
RouteNetlistReturnsWithoutWait ==
    /\ router_pc = "waiting"
    /\ thread_task["caller"] = NoTask
    /\ route_iter_results' = combine_results(results_th)
    /\ router_pc' = "returned"
    /\ UNCHANGED << tree, task_group, thread_task, results_th, spawned, route_net_log >>
    /\ UNCHANGED noc_place_vars

\* group.wait() returns when no task of the group is left or running; the
\* results of the threads are combined and returned
RouteNetlistReturns ==
    /\ router_pc = "waiting"
    /\ task_group = {}
    /\ \A t \in RouterThreads : thread_task[t] = NoTask
    /\ route_iter_results' = combine_results(results_th)
    /\ router_pc' = "returned"
    /\ UNCHANGED << tree, task_group, thread_task, results_th, spawned, route_net_log >>
    /\ UNCHANGED noc_place_vars

InitNetlistRouter ==
    /\ Init
    /\ noc_routing_algorithm = "clockwise"
    /\ ~detailed_link_latency

NextNetlistRouter ==
    \/ RouteNetlist
    \/ \E t \in RouterThreads : RouteNetBegin(t)
    \/ \E t \in RouterThreads : RouteNetEnd(t)
    \/ \E t \in RouterThreads : SpawnBranches(t)
    \/ \E t \in RouterThreads : RunTask(t)
    \/ RouteNetlistReturns

SpecNetlistRouter == InitNetlistRouter /\ [][NextNetlistRouter]_vars

\* the task arena runs every thread that can take a step
FairNetlistRouter == InitNetlistRouter /\ [][NextNetlistRouter]_vars /\ WF_vars(NextNetlistRouter)

-----------------------------------------------------------------------------
(* find_affected_links_by_flow_reroute called on its own *)

\* the routes handed over: link vectors without a repeated link, in any order
LinkVectors ==
    UNION { { route \in [1 .. n -> { l \in NocLinkIds : l <= MaxRouteLinks }] :
                \A i, j \in 1 .. n : i # j => route[i] # route[j] } :
            n \in 0 .. MaxRouteLinks }

\* the state of the handler and of its caller
handler_vars ==
    << block_locs, blocks_affected, noc_routing_algorithm, detailed_link_latency,
       detailed_router_latency, traffic_flow_routes, traffic_flow_routes_backup,
       traffic_flow_costs, proposed_traffic_flow_costs, link_bandwidth_usages,
       link_congestion_costs, proposed_link_congestion_costs, affected_traffic_flows,
       affected_noc_links, updated_traffic_flows, todo, half_done, costs, delta_c,
       phase, num_moves, num_swap_rejected, saved_routes, saved_usages, first_delta_c,
       reinit_seed, diagnostics, is_fixed, router_clusters, congested_links, proposal,
       router_swap, noc_cost_norm_factors, has_cycle, noc_placement_file,
       noc_cost_check, latency_cons_met >>

InitAffectedLinks ==
    /\ HandlerAtInitialPlacement
    /\ noc_routing_algorithm = "clockwise"
    /\ ~detailed_link_latency
    /\ flow_reroute_links \in { [called |-> FALSE, prev_links |-> prev_links, curr_links |-> curr_links] :
                             prev_links \in LinkVectors, curr_links \in LinkVectors }

\* the call; both arguments are references and are left sorted
FindAffectedLinksByFlowReroute ==
    /\ ~flow_reroute_links.called
    /\ flow_reroute_links' =
           [called |-> TRUE,
            handed_over |-> [prev_links |-> flow_reroute_links.prev_links,
                             curr_links |-> flow_reroute_links.curr_links],
            prev_links |-> stable_sort(flow_reroute_links.prev_links),
            curr_links |-> stable_sort(flow_reroute_links.curr_links),
            links |-> find_affected_links_by_flow_reroute(flow_reroute_links.prev_links,
                                                          flow_reroute_links.curr_links)]
    /\ UNCHANGED handler_vars
    /\ NetlistRouterUnchanged

NextAffectedLinks == FindAffectedLinksByFlowReroute

SpecAffectedLinks == InitAffectedLinks /\ [][NextAffectedLinks]_vars

-----------------------------------------------------------------------------
(* Properties *)

LinksOf(route) == Range(route)

\* the bandwidth the routes put on a link
routed_bandwidth(l, routes) ==
    SumOver({ f \in NocTrafficFlowIds : l \in LinksOf(routes[f]) },
            [f \in NocTrafficFlowIds |-> noc_traffic_flows[f].traffic_flow_bandwidth])

MovedBlockNums == { blocks_affected[i].block_num : i \in DOMAIN blocks_affected }

\* a flow whose source and sink router clusters are both in the move
BothEndsMoved(f) ==
    /\ noc_traffic_flows[f].source_router_cluster_id \in MovedBlockNums
    /\ noc_traffic_flows[f].sink_router_cluster_id \in MovedBlockNums

\* revert_noc_traffic_flow_routes has done all its iterations
RevertReturns == phase = "revert" /\ todo = << >>

\* C1: when revert returns after an evaluate_delta that started in IDLE, every
\* link's bandwidth usage and every flow's route are what they were before
\* the evaluate_delta.
C1_RevertRestoresRoutesAndUsages ==
    RevertReturns =>
        /\ traffic_flow_routes = saved_routes
        /\ link_bandwidth_usages = saved_usages

\* a revert has returned for a move that took both ends of a flow, listed a
\* block twice and had changed that flow's route
C1_Witness ==
    /\ RevertReturns
    /\ Len(blocks_affected) > Cardinality(MovedBlockNums)
    /\ \E f \in NocTrafficFlowIds :
          /\ BothEndsMoved(f)
          /\ traffic_flow_routes_backup[f] /= traffic_flow_routes[f]

\* C2: between handler calls (after routing initialisation, after
\* evaluate_delta, after commit and after revert) the usage of every link is
\* the sum of the bandwidths of the flows whose route contains the link.
C2_UsageIsSumOfRoutedFlows ==
    phase \in { "routed", "idle", "moved", "dirty" } =>
        \A l \in NocLinkIds :
            link_bandwidth_usages[l] = routed_bandwidth(l, traffic_flow_routes)

\* IDLE after two transactions, away from the first placement, with a link
\* that carries more than one flow
C2_Witness ==
    /\ phase = "idle"
    /\ num_moves = 2
    /\ block_locs /= InitialBlockLocs
    /\ \E l \in NocLinkIds :
          Cardinality({ f \in NocTrafficFlowIds : l \in LinksOf(traffic_flow_routes[f]) }) > 1

\* C3: the caller's running totals, to which every committed delta was added,
\* equal the totals recompute_noc_costs rebuilds from the committed caches in
\* every IDLE state: T + D is what recompute finds after a commit.
C3_RecomputeAgreesWithRunningTotals ==
    phase = "idle" => recompute_noc_costs = costs

\* IDLE right after a commit (the proposed costs of the affected flows are
\* invalidated) of a move that changed the totals
C3_Witness ==
    /\ phase = "idle"
    /\ affected_traffic_flows /= << >>
    /\ \A i \in DOMAIN affected_traffic_flows :
          proposed_traffic_flow_costs[affected_traffic_flows[i]] = InvalidFlowCost
    /\ costs /= sum_noc_costs(comp_noc_flow_costs([f \in NocTrafficFlowIds |->
                                  route_traffic_flow(f, InitialBlockLocs)]),
                              [l \in NocLinkIds |-> 0])
    /\ costs.congestion > 0

\* C4: in every IDLE state the committed cost of every flow is the kernels'
\* value on its route and the committed congestion cost of every link is the
\* kernel's value on its usage.
C4_CommittedCostsMatchKernels ==
    phase = "idle" =>
        /\ \A f \in NocTrafficFlowIds :
              traffic_flow_costs[f] = flow_cost(traffic_flow_routes[f], noc_traffic_flows[f])
        /\ \A l \in NocLinkIds :
              link_congestion_costs[l] = get_link_congestion_cost(l, link_bandwidth_usages)

\* IDLE after one rejected and one committed move, with a congested link and
\* a flow over its latency bound
C4_Witness ==
    /\ phase = "idle"
    /\ num_moves = 2
    /\ num_swap_rejected = 1
    /\ \E i \in DOMAIN affected_traffic_flows :
          proposed_traffic_flow_costs[affected_traffic_flows[i]] = InvalidFlowCost
    /\ \E l \in NocLinkIds : link_congestion_costs[l] > 0
    /\ \E f \in NocTrafficFlowIds : traffic_flow_costs[f].latency_overrun > 0

\* a step of evaluate_delta or of revert
EvaluateOrRevertStep == phase \in { "moved", "eval", "revert" } \/ phase' = "revert"

\* C5: no step of evaluate_delta or of revert changes a committed cost, and
\* when revert returns the totals rebuilt from the committed caches are the
\* caller's totals from before the move.
C5_EvaluateAndRevertKeepCommittedCosts ==
    /\ [][EvaluateOrRevertStep => UNCHANGED << traffic_flow_costs, link_congestion_costs >>]_vars
    /\ [](RevertReturns => recompute_noc_costs = costs)

\* revert returns from a move whose delta was not zero in any term
C5_Witness ==
    /\ RevertReturns
    /\ delta_c.aggregate_bandwidth /= 0
    /\ delta_c.latency /= 0
    /\ delta_c.latency_overrun /= 0
    /\ delta_c.congestion /= 0

\* C6: the bandwidth usage of every link is at least 0 in every state, the
\* states between a decrement and the following increment included.
C6_UsageNeverNegative ==
    \A l \in NocLinkIds : link_bandwidth_usages[l] >= 0

\* inside revert, between the decrement and the increment, with a link that
\* was in use before the move taken down to 0
C6_Witness ==
    /\ phase = "revert"
    /\ half_done
    /\ \E l \in NocLinkIds : saved_usages[l] > 0 /\ link_bandwidth_usages[l] = 0

\* every valid proposed cost belongs to a flow or link of the scratch sets
ProposedInvalidUnlessAffected ==
    /\ \A f \in NocTrafficFlowIds :
          proposed_traffic_flow_costs[f] /= InvalidFlowCost => f \in Range(affected_traffic_flows)
    /\ \A l \in NocLinkIds :
          proposed_link_congestion_costs[l] /= INVALID_NOC_COST_TERM => l \in affected_noc_links

\* C7 as stated: in every reachable state a proposed flow cost is the invalid
\* sentinel unless the flow is in affected_traffic_flows, and a proposed link
\* cost is the sentinel unless the link is in affected_noc_links.
C7_ProposedInvalidUnlessAffected_AsStated == ProposedInvalidUnlessAffected

\* C7 amended: the same, in every state reached while no move has been
\* rejected; revert does not invalidate the proposed costs.
C7_ProposedInvalidUnlessAffected_NoRevert ==
    num_swap_rejected = 0 => ProposedInvalidUnlessAffected

\* the second evaluate_delta after a commit, with proposed costs of both kinds
\* valid and the proposed cost of an untouched flow invalid
C7_Witness ==
    /\ phase = "dirty"
    /\ num_moves = 2
    /\ num_swap_rejected = 0
    /\ \E f \in NocTrafficFlowIds : proposed_traffic_flow_costs[f] /= InvalidFlowCost
    /\ \E f \in NocTrafficFlowIds : proposed_traffic_flow_costs[f] = InvalidFlowCost
    /\ \E l \in NocLinkIds : proposed_link_congestion_costs[l] /= INVALID_NOC_COST_TERM

ScratchEmpty == affected_traffic_flows = << >> /\ affected_noc_links = {}

\* evaluate_delta has been entered and has re-routed nothing yet
EvaluateEntered == phase = "eval" /\ updated_traffic_flows = {} /\ ~half_done

\* a step of commit or of revert
CommitOrRevertStep == phase \in { "dirty", "revert" }

ScratchUnchangedByStep ==
    /\ affected_traffic_flows' = affected_traffic_flows
    /\ affected_noc_links' = affected_noc_links

\* C8 as stated: the scratch sets are empty in every IDLE state.
C8_ScratchEmptyWhenIdle_AsStated == phase = "idle" => ScratchEmpty

\* C8 amended: the scratch sets are emptied on entry to evaluate_delta, and
\* commit and revert leave them as evaluate_delta filled them.
C8_ScratchClearedOnEvaluateEntry ==
    /\ [](EvaluateEntered => ScratchEmpty)
    /\ [][CommitOrRevertStep => ScratchUnchangedByStep]_vars

\* entry to the second evaluate_delta, after a revert that had flows to undo
C8_Witness ==
    /\ EvaluateEntered
    /\ num_moves = 2
    /\ todo /= << >>
    /\ \E f \in NocTrafficFlowIds : proposed_traffic_flow_costs[f] /= InvalidFlowCost

\* links in exactly one of two routes
ChangedLinks(prev, curr) == (LinksOf(prev) \ LinksOf(curr)) \cup (LinksOf(curr) \ LinksOf(prev))

\* C9: affected_traffic_flows never holds a flow twice; after evaluate_delta
\* it holds exactly the flows of the moved router blocks, each re-routed once
\* (its backup slot holds the route from before the move, which a second
\* re-route would overwrite), and affected_noc_links, a set, is the union of
\* the links each of these flows left or newly uses.
C9_AffectedFlowsAndLinksOnce ==
    /\ \A i, j \in DOMAIN affected_traffic_flows :
          i /= j => affected_traffic_flows[i] /= affected_traffic_flows[j]
    /\ phase = "dirty" =>
          /\ Range(affected_traffic_flows) = Range(associated_flow_iterations(blocks_affected))
          /\ \A f \in Range(affected_traffic_flows) :
                /\ traffic_flow_routes_backup[f] = saved_routes[f]
                /\ traffic_flow_routes[f] = route_traffic_flow(f, block_locs)
          /\ affected_noc_links =
                UNION { ChangedLinks(saved_routes[f], traffic_flow_routes[f]) :
                           f \in Range(affected_traffic_flows) }

\* after an evaluate_delta whose move lists a block twice and takes both ends
\* of a flow, with all three flows re-routed and a link changed by two flows
C9_Witness ==
    /\ phase = "dirty"
    /\ Len(blocks_affected) > Cardinality(MovedBlockNums)
    /\ \E f \in NocTrafficFlowIds : BothEndsMoved(f)
    /\ Len(affected_traffic_flows) = Cardinality(NocTrafficFlowIds)
    /\ \E f, g \in NocTrafficFlowIds :
          /\ f /= g
          /\ ChangedLinks(saved_routes[f], traffic_flow_routes[f])
                \cap ChangedLinks(saved_routes[g], traffic_flow_routes[g]) /= {}

\* C10 as stated: the second of two consecutive evaluate_delta(m) calls yields
\* the same four delta terms as the first.
C10_SecondDeltaEqualsFirst_AsStated ==
    SecondEvaluateReturned => delta_c = first_delta_c

\* C10 amended: the second call yields the same aggregate bandwidth, latency
\* and latency overrun deltas as the first, and a congestion delta of 0.
C10_SecondDeltaEqualsFirstButCongestion ==
    SecondEvaluateReturned =>
        /\ delta_c.aggregate_bandwidth = first_delta_c.aggregate_bandwidth
        /\ delta_c.latency = first_delta_c.latency
        /\ delta_c.latency_overrun = first_delta_c.latency_overrun
        /\ delta_c.congestion = 0

\* the second call has returned for a move whose first delta was not zero in
\* any term
C10_Witness ==
    /\ SecondEvaluateReturned
    /\ first_delta_c.aggregate_bandwidth /= 0
    /\ first_delta_c.latency /= 0
    /\ first_delta_c.latency_overrun /= 0
    /\ first_delta_c.congestion /= 0

\* every link usage is the sum of the bandwidths routed over the link
UsageIsSumOfAdoptedRoutes ==
    \A l \in NocLinkIds : link_bandwidth_usages[l] = routed_bandwidth(l, traffic_flow_routes)

\* C11 as stated: when initial_noc_routing returns, on a fresh handler or on
\* one that was routed before, every link usage is the sum of the bandwidths
\* of the flows whose adopted route holds the link.
C11_InitialRoutingZeroesUsage_AsStated ==
    phase \in { "routed", "rerouted" } => UsageIsSumOfAdoptedRoutes

\* C11 amended: initial_noc_routing adds the bandwidths of the adopted routes
\* to the usages it finds; the usages are the sums on a freshly constructed
\* handler, and the earlier usages plus the sums after a second call.
C11_InitialRoutingAddsToUsage ==
    /\ phase = "routed" => UsageIsSumOfAdoptedRoutes
    /\ phase = "rerouted" =>
          \A l \in NocLinkIds :
              link_bandwidth_usages[l] = saved_usages[l] + routed_bandwidth(l, traffic_flow_routes)

\* a second initial_noc_routing has returned on a link that carried traffic
\* before the call and carries an adopted route after it
C11_Witness ==
    /\ phase = "rerouted"
    /\ \E l \in NocLinkIds :
          /\ saved_usages[l] > 0
          /\ routed_bandwidth(l, traffic_flow_routes) > 0
          /\ link_bandwidth_usages[l] > routed_bandwidth(l, traffic_flow_routes)

\* the committed cost caches hold what the kernels give for the committed
\* routes and usages
CostsCached ==
    /\ traffic_flow_costs = comp_noc_flow_costs(traffic_flow_routes)
    /\ link_congestion_costs = comp_noc_congestion_cost(link_bandwidth_usages)

\* no committed cost has been written since construction
NoCostCached ==
    /\ \A f \in NocTrafficFlowIds : traffic_flow_costs[f] = InvalidFlowCost
    /\ \A l \in NocLinkIds : link_congestion_costs[l] = INVALID_NOC_COST_TERM

\* C12 as stated: when initial_noc_routing returns, every committed per-flow
\* and per-link cost is computed from the adopted routes and cached, and the
\* caller holds the four aggregate terms.
C12_InitialRoutingCachesCosts_AsStated ==
    phase = "routed" =>
        /\ CostsCached
        /\ costs = sum_noc_costs(traffic_flow_costs, link_congestion_costs)

\* C12 amended: when initial_noc_routing returns, every committed per-flow and
\* per-link cost still holds the invalid sentinel and the caller's totals are
\* untouched; the caches are filled, and the aggregate terms returned, by the
\* comp_noc_ functions the caller runs next, so that no sentinel is left once
\* the handler is idle.
C12_InitialRoutingCachesNoCost ==
    /\ phase = "routed" => NoCostCached /\ costs = ZeroCostTerms
    /\ phase = "idle" =>
          /\ \A f \in NocTrafficFlowIds :
                /\ traffic_flow_costs[f].aggregate_bandwidth /= INVALID_NOC_COST_TERM
                /\ traffic_flow_costs[f].latency /= INVALID_NOC_COST_TERM
                /\ traffic_flow_costs[f].latency_overrun /= INVALID_NOC_COST_TERM
          /\ \A l \in NocLinkIds : link_congestion_costs[l] /= INVALID_NOC_COST_TERM

\* initial_noc_routing has returned with every flow routed over used links
C12_Witness ==
    /\ phase = "routed"
    /\ \A f \in NocTrafficFlowIds : traffic_flow_routes[f] /= << >>
    /\ \E l \in NocLinkIds : link_bandwidth_usages[l] > 0
    /\ NoCostCached

\* the routes reinitialize_noc_routing adopts for a seed: the seed's, or the
\* collaborator's for the current placement when the seed is empty
AdoptedRoutes(seed) ==
    IF DOMAIN seed = {}
    THEN [f \in NocTrafficFlowIds |-> route_traffic_flow(f, block_locs)]
    ELSE seed

\* C13: after reinitialize_noc_routing(seed) every route is the seed's (the
\* collaborator's for an empty seed), every link usage is the sum of the
\* bandwidths of the flows whose adopted route holds the link, whatever the
\* usage was before, and the caller's four cost terms are the sums of the
\* kernels over these routes and usages.
C13_ReinitializeAdoptsSeed ==
    (phase = "idle" /\ reinit_seed /= NoSeed) =>
        LET adopted == AdoptedRoutes(reinit_seed.new_traffic_flow_routes)
        IN  /\ traffic_flow_routes = adopted
            /\ \A l \in NocLinkIds : link_bandwidth_usages[l] = routed_bandwidth(l, adopted)
            /\ costs = sum_noc_costs(comp_noc_flow_costs(adopted),
                                     comp_noc_congestion_cost(link_bandwidth_usages))

\* reinitialize_noc_routing has returned, after a committed move, for a seed
\* that differs from the collaborator's routes
C13_Witness ==
    /\ phase = "idle"
    /\ reinit_seed /= NoSeed
    /\ num_moves > num_swap_rejected
    /\ DOMAIN reinit_seed.new_traffic_flow_routes /= {}
    /\ \E f \in NocTrafficFlowIds :
          reinit_seed.new_traffic_flow_routes[f] /= route_traffic_flow(f, block_locs)

\* reinitialize_noc_routing has returned for an empty seed
C13_WitnessEmptySeed ==
    /\ phase = "idle"
    /\ reinit_seed /= NoSeed
    /\ DOMAIN reinit_seed.new_traffic_flow_routes = {}
    /\ num_moves > 0

\* recompute_costs_from_scratch has run on totals that had drifted
RecomputeFoundDivergence ==
    phase \in { "recomputed", "error" } /\ diagnostics /= {}

\* C14: when recompute_costs_from_scratch finds a total that differs from the
\* tracked one by more than the tolerance it raises a diagnostic, still adopts
\* every recomputed total and returns normally.
C14_DivergenceIsDiagnosedAndAdopted ==
    RecomputeFoundDivergence => phase = "recomputed" /\ costs = recompute_noc_costs

C15_WitnessAllLinks ==
    /\ phase = "queried"
    /\ congested_links.n > Cardinality(NocLinkIds)
    /\ \E l \in NocLinkIds : link_bandwidth_usages[l] > 0

\* the cases of the last propose_router_swap call, read off the netlist, the
\* block locations and the answers the call got
ProposerCalled == proposal /= NoProposal

NoRouterClusters == router_clusters = << >>

ChosenCluster == router_clusters[proposal.cluster_draw + 1]

ChosenIsFixed == ~NoRouterClusters /\ is_fixed[ChosenCluster]

NoDestinationInRange ==
    /\ ~NoRouterClusters
    /\ ~ChosenIsFixed
    /\ ~\E t \in RouterTiles :
          /\ t /= block_locs[ChosenCluster]
          /\ Abs(t[1] - block_locs[ChosenCluster][1]) <= proposal.rlim
          /\ Abs(t[2] - block_locs[ChosenCluster][2]) <= proposal.rlim

MoveWasCreated == ~NoRouterClusters /\ ~ChosenIsFixed /\ ~NoDestinationInRange

C16_WitnessNoRouterClusters == ProposerCalled /\ NoRouterClusters

C16_WitnessNoDestination == ProposerCalled /\ NoDestinationInRange

C16_WitnessFloorplan ==
    ProposerCalled /\ MoveWasCreated /\ ~proposal.legal /\ blocks_affected /= << >>

C16_WitnessValid ==
    ProposerCalled /\ MoveWasCreated /\ proposal.legal /\ proposal.create_move = "VALID"
        /\ Len(blocks_affected) = 2

C16_WitnessCreateMoveAborts ==
    ProposerCalled /\ MoveWasCreated /\ proposal.legal /\ proposal.create_move = "ABORT"

\* C17: check_for_router_swap draws r in 0 .. 99 and answers r < percentage:
\* never yes for percentage 0, always yes for percentage 100.
C17_RouterSwapCheck ==
    router_swap /= NoRouterSwapCheck =>
        /\ router_swap.draw \in 0 .. 99
        /\ router_swap.result <=> router_swap.draw < router_swap.percentage
        /\ router_swap.percentage = 0 => ~router_swap.result
        /\ router_swap.percentage = 100 => router_swap.result

\* the largest draw with percentage 100
C17_Witness ==
    /\ router_swap /= NoRouterSwapCheck
    /\ router_swap.percentage = 100
    /\ router_swap.draw = 99
    /\ router_swap.result

C17_WitnessNever ==
    /\ router_swap /= NoRouterSwapCheck
    /\ router_swap.percentage = 0
    /\ router_swap.draw = 0
    /\ ~router_swap.result

-----------------------------------------------------------------------------
(* The latency kernel, stated from the route alone *)

\* the latency of a route with both detailed flags off
CoarseRouteLatency(route) ==
    get_noc_link_latency * Len(route) + get_noc_router_latency * (Len(route) + 1)

\* the latency of a non-empty route with both detailed flags on
DetailedRouteLatency(route) ==
    SumOver(DOMAIN route, [i \in DOMAIN route |-> get_latency(route[i])])
        + get_router_latency(get_source_router(route[1]))
        + SumOver(DOMAIN route,
                  [i \in DOMAIN route |-> get_router_latency(get_sink_router(route[i]))])

\* the unweighted latency L of a route under the flags of the NoC model
UnweightedRouteLatency(route) ==
    IF detailed_link_latency /\ detailed_router_latency
    THEN DetailedRouteLatency(route)
    ELSE CoarseRouteLatency(route)

\* C18: the latency overrun cached for a flow is priority * max(0, L -
\* max_latency), L the unweighted latency of its route; a flow whose L does
\* not exceed max_latency has overrun 0 whatever its priority.
C18_OverrunUsesUnweightedLatency ==
    phase = "idle" =>
        \A f \in NocTrafficFlowIds :
            LET flow == noc_traffic_flows[f]
                L == UnweightedRouteLatency(traffic_flow_routes[f])
            IN  /\ traffic_flow_costs[f].latency_overrun
                       = flow.traffic_flow_priority
                             * Max(0, L - flow.max_traffic_flow_latency)
                /\ L <= flow.max_traffic_flow_latency
                       => traffic_flow_costs[f].latency_overrun = 0

\* IDLE with a flow of priority above 1 whose unweighted latency is within
\* its bound while its priority-scaled latency is not
C18_Witness ==
    /\ phase = "idle"
    /\ \E f \in NocTrafficFlowIds :
          LET flow == noc_traffic_flows[f]
              L == UnweightedRouteLatency(traffic_flow_routes[f])
          IN  /\ flow.traffic_flow_priority > 1
              /\ L <= flow.max_traffic_flow_latency
              /\ L * flow.traffic_flow_priority > flow.max_traffic_flow_latency
              /\ traffic_flow_costs[f].latency_overrun = 0

\* IDLE with a flow of priority above 1 that is over its latency bound
C18_WitnessOverrun ==
    /\ phase = "idle"
    /\ \E f \in NocTrafficFlowIds :
          /\ noc_traffic_flows[f].traffic_flow_priority > 1
          /\ traffic_flow_costs[f].latency_overrun > 0

\* C19: with both detailed flags off, the latency cost cached for a flow is
\* its priority times default_link_latency * |route| + default_router_latency
\* * (|route| + 1), for every route length.
C19_CoarseLatency ==
    (phase = "idle" /\ ~detailed_link_latency /\ ~detailed_router_latency) =>
        \A f \in NocTrafficFlowIds :
            traffic_flow_costs[f].latency
                = noc_traffic_flows[f].traffic_flow_priority
                      * CoarseRouteLatency(traffic_flow_routes[f])

\* IDLE with the flags off, a flow of priority above 1 routed over three
\* links and another flow routed over two
C19_Witness ==
    /\ phase = "idle"
    /\ ~detailed_link_latency
    /\ ~detailed_router_latency
    /\ \E f \in NocTrafficFlowIds :
          /\ noc_traffic_flows[f].traffic_flow_priority > 1
          /\ Len(traffic_flow_routes[f]) = 3
    /\ \E f \in NocTrafficFlowIds : Len(traffic_flow_routes[f]) = 2

\* IDLE with the flags off and a flow between adjacent routers
C19_WitnessOneLink ==
    /\ phase = "idle"
    /\ ~detailed_link_latency
    /\ ~detailed_router_latency
    /\ \E f \in NocTrafficFlowIds : Len(traffic_flow_routes[f]) = 1

\* C20: with both detailed flags on, the latency of a non-empty route is the
\* sum of its links' latencies plus the latency of the source router of its
\* first link plus the latency of the sink router of every link; a route of
\* one link pays one link latency and two router latencies.
C20_DetailedLatency ==
    (phase = "idle" /\ detailed_link_latency /\ detailed_router_latency) =>
        \A f \in NocTrafficFlowIds :
            LET route == traffic_flow_routes[f]
                priority == noc_traffic_flows[f].traffic_flow_priority
            IN  route /= << >> =>
                    /\ traffic_flow_costs[f].latency
                           = priority * DetailedRouteLatency(route)
                    /\ Len(route) = 1 =>
                           traffic_flow_costs[f].latency
                               = priority
                                   * (get_latency(route[1])
                                      + get_router_latency(get_source_router(route[1]))
                                      + get_router_latency(get_sink_router(route[1])))

\* IDLE with the flags on, a flow routed over one counter-clockwise link and
\* a flow routed over several links
C20_Witness ==
    /\ phase = "idle"
    /\ detailed_link_latency
    /\ detailed_router_latency
    /\ \E f \in NocTrafficFlowIds :
          /\ Len(traffic_flow_routes[f]) = 1
          /\ traffic_flow_routes[f][1] >= RingSize
    /\ \E f \in NocTrafficFlowIds : Len(traffic_flow_routes[f]) > 1

\* IDLE with the flags on and a flow routed over three links
C20_WitnessThreeLinks ==
    /\ phase = "idle"
    /\ detailed_link_latency
    /\ detailed_router_latency
    /\ \E f \in NocTrafficFlowIds : Len(traffic_flow_routes[f]) = 3

-----------------------------------------------------------------------------
(* The congestion and aggregate-bandwidth kernels, stated from the routes *)

\* the flows whose committed route goes through link l
FlowsThrough(l) ==
    { f \in NocTrafficFlowIds : l \in Range(traffic_flow_routes[f]) }

\* the total bandwidth of all flows routed through link l, a flow counted
\* once for every time its route uses the link
TotalUsage(l) ==
    SumOver(NocTrafficFlowIds,
            [f \in NocTrafficFlowIds |->
                noc_traffic_flows[f].traffic_flow_bandwidth
                    * Cardinality({ i \in DOMAIN traffic_flow_routes[f] :
                                        traffic_flow_routes[f][i] = l })])

\* C21: the congestion cost cached for a link is max(0, usage - bandwidth) /
\* bandwidth on the total usage of all flows routed through it (costs are in
\* units of 1 / CongestionDenominator): a link within its bandwidth
\* contributes 0, and a link of bandwidth 10 shared by exactly two flows of
\* bandwidth 6 contributes (12 - 10) / 10; the caller's congestion total is
\* the sum over the links.
C21_CongestionOnTotalUsage ==
    phase = "idle" =>
        /\ \A l \in NocLinkIds :
              /\ link_congestion_costs[l] * get_bandwidth(l)
                     = Max(0, TotalUsage(l) - get_bandwidth(l)) * CongestionDenominator
              /\ TotalUsage(l) <= get_bandwidth(l) => link_congestion_costs[l] = 0
              /\ ( /\ get_bandwidth(l) = 10
                   /\ Cardinality(FlowsThrough(l)) = 2
                   /\ \A f \in FlowsThrough(l) :
                          noc_traffic_flows[f].traffic_flow_bandwidth = 6 )
                     => link_congestion_costs[l] * 10 = (12 - 10) * CongestionDenominator
        /\ costs.congestion = SumOver(NocLinkIds, link_congestion_costs)

\* IDLE with exactly one link of bandwidth 10 shared by the two flows of
\* bandwidth 6, a used link within its bandwidth, and every other link
\* contributing 0
C21_Witness ==
    /\ phase = "idle"
    /\ \E l \in NocLinkIds :
          /\ get_bandwidth(l) = 10
          /\ Cardinality(FlowsThrough(l)) = 2
          /\ \A f \in FlowsThrough(l) : noc_traffic_flows[f].traffic_flow_bandwidth = 6
          /\ link_congestion_costs[l] > 0
          /\ \A k \in NocLinkIds \ { l } : link_congestion_costs[k] = 0
          /\ \E k \in NocLinkIds \ { l } :
                TotalUsage(k) > 0 /\ TotalUsage(k) <= get_bandwidth(k)
          /\ costs.congestion = link_congestion_costs[l]

\* IDLE with a counter-clockwise link (bandwidth 5) carrying more than its
\* bandwidth
C21_WitnessNarrowLink ==
    /\ phase = "idle"
    /\ \E l \in NocLinkIds :
          /\ get_bandwidth(l) < CongestionDenominator
          /\ link_congestion_costs[l] > 0

\* C22: the aggregate-bandwidth cost cached for a flow is priority *
\* bandwidth * |route|, so an empty route costs 0, and the total is the sum
\* of that value over all flows.
C22_AggregateBandwidth ==
    phase \in { "idle", "costed" } =>
        /\ \A f \in NocTrafficFlowIds :
              LET flow == noc_traffic_flows[f]
              IN  /\ traffic_flow_costs[f].aggregate_bandwidth
                         = flow.traffic_flow_priority * flow.traffic_flow_bandwidth
                               * Len(traffic_flow_routes[f])
                  /\ traffic_flow_routes[f] = << >>
                         => traffic_flow_costs[f].aggregate_bandwidth = 0
        /\ costs.aggregate_bandwidth
               = SumOver(NocTrafficFlowIds,
                         [f \in NocTrafficFlowIds |->
                             noc_traffic_flows[f].traffic_flow_priority
                                 * noc_traffic_flows[f].traffic_flow_bandwidth
                                 * Len(traffic_flow_routes[f])])

\* the kernel has run on empty routes: every flow costs 0 and the total is 0
C22_Witness ==
    /\ phase = "costed"
    /\ \A f \in NocTrafficFlowIds :
          /\ traffic_flow_routes[f] = << >>
          /\ traffic_flow_costs[f].aggregate_bandwidth = 0
    /\ costs.aggregate_bandwidth = 0

\* IDLE after a committed move with a flow of priority above 1 routed over
\* three links
C22_WitnessLongRoute ==
    /\ phase = "idle"
    /\ num_moves > num_swap_rejected
    /\ \E f \in NocTrafficFlowIds :
          /\ noc_traffic_flows[f].traffic_flow_priority > 1
          /\ Len(traffic_flow_routes[f]) = 3
          /\ traffic_flow_costs[f].aggregate_bandwidth > 0

-----------------------------------------------------------------------------
(* The normalisation factors *)

\* factor a is the number b
SameNumber(a, b) == a.num * b.den = b.num * a.den

\* the factor of a term held in units of 1 / unit, with cap max_inv, is as
\* claimed: the smaller of 1 / term and the cap when the term is positive,
\* the cap when it is not, and a number that is not negative
FactorAsClaimed(factor, term, unit, max_inv) ==
    /\ term > 0 =>
          IF unit * max_inv.den <= max_inv.num * term
          THEN factor.num * term = unit * factor.den
          ELSE SameNumber(factor, max_inv)
    /\ term <= 0 => SameNumber(factor, max_inv)
    /\ factor.den > 0
    /\ factor.num >= 0

C23_WitnessNegativeTerms ==
    /\ noc_cost_norm_factors /= NoNormFactors
    /\ costs.latency_overrun < 0
    /\ costs.congestion < 0

\* the factors have been updated from positive totals, one with its inverse
\* above the cap and one with its inverse below it
C23_WitnessPositiveTerms ==
    /\ noc_cost_norm_factors /= NoNormFactors
    /\ costs.congestion = 1
    /\ noc_cost_norm_factors.congestion = MAX_INV_NOC_CONGESTION_COST
    /\ costs.latency = 3
    /\ noc_cost_norm_factors.latency = Quotient(1, 3)

-----------------------------------------------------------------------------
(* Cycles of the channel-dependency graph *)

\* link a is immediately followed by link b in some committed route
Follows(a, b) ==
    \E f \in NocTrafficFlowIds :
        \E i \in 1 .. Len(traffic_flow_routes[f]) - 1 :
            traffic_flow_routes[f][i] = a /\ traffic_flow_routes[f][i + 1] = b

\* the links that immediately follow link a in some committed route
Successors(a) ==
    UNION { { traffic_flow_routes[f][i + 1] :
                i \in { j \in 1 .. Len(traffic_flow_routes[f]) - 1 :
                          traffic_flow_routes[f][j] = a } } :
            f \in NocTrafficFlowIds }

\* the pairs joined by a path of at most n + 1 edges
RECURSIVE PathsUpTo(_)
PathsUpTo(n) ==
    IF n = 0
    THEN UNION { { << a, b >> : b \in Successors(a) } : a \in NocLinkIds }
    ELSE UNION { { p } \cup { << p[1], c >> : c \in Successors(p[2]) } :
                 p \in PathsUpTo(n - 1) }

\* the graph over the links with the edges Follows has a directed cycle
CommittedRoutesHaveCycle ==
    \E l \in NocLinkIds : << l, l >> \in PathsUpTo(Cardinality(NocLinkIds) - 1)

\* C24: noc_routing_has_cycle returns true iff the channel-dependency graph
\* of the routes in traffic_flow_routes (an edge a -> b whenever some route
\* contains a immediately followed by b) has a directed cycle.
C24_HasCycleIffCdgCyclic ==
    has_cycle /= NoCycleCheck => (has_cycle.result <=> CommittedRoutesHaveCycle)

\* two flows whose routes form a 2-cycle: true
C24_Witness ==
    /\ has_cycle /= NoCycleCheck
    /\ has_cycle.result
    /\ \E a, b \in NocLinkIds :
          /\ a /= b
          /\ Follows(a, b)
          /\ Follows(b, a)
          /\ \E f, g \in NocTrafficFlowIds :
                /\ f /= g
                /\ \E i \in 1 .. Len(traffic_flow_routes[f]) - 1 :
                      traffic_flow_routes[f][i] = a /\ traffic_flow_routes[f][i + 1] = b
                /\ \E i \in 1 .. Len(traffic_flow_routes[g]) - 1 :
                      traffic_flow_routes[g][i] = b /\ traffic_flow_routes[g][i + 1] = a
                /\ \A i \in 1 .. Len(traffic_flow_routes[f]) - 1 :
                      ~(traffic_flow_routes[f][i] = b /\ traffic_flow_routes[f][i + 1] = a)

\* one of the two flows routed without its turn: false
C24_WitnessOneFlowLess ==
    /\ has_cycle /= NoCycleCheck
    /\ ~has_cycle.result
    /\ phase = "cycle_checked"
    /\ reinit_seed.given
    /\ reinit_seed.new_traffic_flow_routes \in ExternalRoutes
    /\ \E a, b \in NocLinkIds : Follows(a, b) /\ get_source_router(a) = get_sink_router(b)

\* a move under evaluation whose new routes close the ring while the backup
\* routes do not
C24_WitnessDuringMove ==
    /\ has_cycle /= NoCycleCheck
    /\ has_cycle.result
    /\ affected_traffic_flows /= << >>
    /\ ~noc_routing_has_cycle(traffic_flow_routes_backup)

-----------------------------------------------------------------------------
(* The placement file, read back *)

\* the pieces of text between the occurrences of the character sep
RECURSIVE SplitAt(_, _, _)
SplitAt(text, sep, piece) ==
    IF text = << >> THEN << piece >>
    ELSE IF Head(text) = sep
         THEN << piece >> \o SplitAt(Tail(text), sep, << >>)
         ELSE SplitAt(Tail(text), sep, Append(piece, Head(text)))

\* the number a string of decimal digits stands for, -1 for any other string
RECURSIVE ReadDecimal(_, _)
ReadDecimal(text, value) ==
    IF text = << >> THEN value
    ELSE IF \E d \in 0 .. 9 : DecimalDigits[d + 1] = Head(text)
         THEN ReadDecimal(Tail(text),
                          10 * value + (CHOOSE d \in 0 .. 9 : DecimalDigits[d + 1] = Head(text)))
         ELSE -1

NumberIn(text) == IF text = << >> THEN -1 ELSE ReadDecimal(text, 0)

\* C25: the file holds exactly one record per router cluster, in the order
\* of the router-cluster list, each record the cluster name, the layer of its
\* location and the id of the physical router at that location, separated by
\* single spaces and ended by a newline, with no header and no extra line.
C25_PlacementFileRecords ==
    (noc_placement_file /= NoPlacementFile /\ noc_placement_file.opened) =>
        LET lines == SplitAt(noc_placement_file.contents, "\n", << >>)
        IN  /\ Len(lines) = Len(router_clusters) + 1
            /\ lines[Len(lines)] = << >>
            /\ \A i \in DOMAIN router_clusters :
                  LET fields == SplitAt(lines[i], " ", << >>)
                      cluster == router_clusters[i]
                  IN  /\ Len(fields) = 3
                      /\ fields[1] = block_name(cluster)
                      /\ NumberIn(fields[2]) = block_locs[cluster][3]
                      /\ NumberIn(fields[3]) = get_router_at_grid_location(block_locs[cluster])

\* a file of three records, written in a netlist order other than the
\* order of the ids, for a placement that uses router 3
C25_Witness ==
    /\ noc_placement_file /= NoPlacementFile
    /\ noc_placement_file.opened
    /\ router_clusters = << 2, 0, 1 >>
    /\ \E b \in 0 .. 2 : get_router_at_grid_location(block_locs[b]) = 3
    /\ Len(noc_placement_file.contents) > 0

\* no router cluster: the file is empty
C25_WitnessNoRouterCluster ==
    /\ noc_placement_file /= NoPlacementFile
    /\ noc_placement_file.opened
    /\ router_clusters = << >>
    /\ noc_placement_file.contents = << >>

-----------------------------------------------------------------------------
(* What evaluate_delta leaves behind *)

\* the links whose usage is not what it was before the move
LinksWithChangedUsage ==
    { l \in NocLinkIds : link_bandwidth_usages[l] /= saved_usages[l] }

\* C26: when evaluate_delta has returned, every link whose bandwidth usage
\* differs from its value before the call is in affected_noc_links, and the
\* congestion delta is the sum over all links of the congestion kernel on the
\* new usage minus the sum over all links of the committed congestion cost.
C26_ChangedLinksAreAffected ==
    phase = "dirty" =>
        /\ LinksWithChangedUsage \subseteq affected_noc_links
        /\ delta_c.congestion =
               SumOver(NocLinkIds,
                       [l \in NocLinkIds |-> get_link_congestion_cost(l, link_bandwidth_usages)])
                   - SumOver(NocLinkIds, link_congestion_costs)

\* evaluate_delta has returned from a move that changed the usage of links
\* and the congestion
C26_Witness ==
    /\ phase = "dirty"
    /\ Cardinality(LinksWithChangedUsage) > 1
    /\ delta_c.congestion /= 0
    /\ \E l \in NocLinkIds : link_bandwidth_usages[l] < saved_usages[l]
    /\ \E l \in NocLinkIds : link_bandwidth_usages[l] > saved_usages[l]

\* evaluate_delta has returned with an affected link whose usage is what it
\* was: one flow left it and a flow of the same bandwidth came
C26_WitnessUnchangedAffectedLink ==
    /\ phase = "dirty"
    /\ \E l \in affected_noc_links : link_bandwidth_usages[l] = saved_usages[l]
    /\ LinksWithChangedUsage /= {}

\* the route the routing collaborator gives flow f for the block locations of
\* the move
RouteForNewLocations(f) ==
    route_flow(get_router_at_grid_location(
                   block_locs[noc_traffic_flows[f].source_router_cluster_id]),
               get_router_at_grid_location(
                   block_locs[noc_traffic_flows[f].sink_router_cluster_id]),
               noc_routing_algorithm)

\* C27: when evaluate_delta, started in IDLE, has returned, the backup slot
\* of every flow in affected_traffic_flows holds the route the flow had
\* before the call and its committed slot holds the route of the routing
\* collaborator for the new block locations.
C27_BackupHoldsRouteBeforeMove ==
    phase = "dirty" =>
        \A i \in DOMAIN affected_traffic_flows :
            LET f == affected_traffic_flows[i]
            IN  /\ traffic_flow_routes_backup[f] = saved_routes[f]
                /\ traffic_flow_routes[f] = RouteForNewLocations(f)

\* evaluate_delta has returned from the second move with two flows re-routed,
\* one of them onto a route other than the one it had
C27_Witness ==
    /\ phase = "dirty"
    /\ num_moves = 2
    /\ Len(affected_traffic_flows) >= 2
    /\ \E i \in DOMAIN affected_traffic_flows :
          LET f == affected_traffic_flows[i]
          IN  /\ traffic_flow_routes[f] /= traffic_flow_routes_backup[f]
              /\ saved_routes[f] /= << >>

-----------------------------------------------------------------------------
(* One undo per flow *)

\* the flows associated with a moved block
FlowsOfMovedBlocks ==
    { f \in NocTrafficFlowIds : noc_traffic_flows[f].source_router_cluster_id \in MovedBlockNums
                                \/ noc_traffic_flows[f].sink_router_cluster_id \in MovedBlockNums }

\* where the rejected move had put block b
LocationInMove(b) ==
    IF b \in MovedBlockNums
    THEN (CHOOSE m \in Range(blocks_affected) : m.block_num = b).new_loc
    ELSE block_locs[b]

\* the route flow f was given for the locations of the rejected move
RouteInMove(f) ==
    route_flow(get_router_at_grid_location(
                   LocationInMove(noc_traffic_flows[f].source_router_cluster_id)),
               get_router_at_grid_location(
                   LocationInMove(noc_traffic_flows[f].sink_router_cluster_id)),
               noc_routing_algorithm)

\* a step of revert that takes a flow off its current route, or puts it on
\* its backup route and swaps its two slots
RevertUndoStep == phase = "revert" /\ todo /= << >> /\ (half_done \/ half_done')

UndoesFlowNotYetReverted == Head(todo) \notin updated_traffic_flows

\* C28: revert undoes each flow associated with the moved router blocks
\* exactly once, also when both its source and its sink router are in the
\* move: no step of revert undoes a flow that was already reverted, and when
\* revert returns every such flow has been reverted, its committed slot holds
\* the route from before the move and its backup slot the route of the move.
C28_RevertUndoesEachFlowOnce ==
    /\ [][RevertUndoStep => UndoesFlowNotYetReverted]_vars
    /\ [](RevertReturns =>
             /\ updated_traffic_flows = FlowsOfMovedBlocks
             /\ \A f \in FlowsOfMovedBlocks :
                   /\ traffic_flow_routes[f] = saved_routes[f]
                   /\ traffic_flow_routes_backup[f] = RouteInMove(f))

\* revert has returned for a move of both ends of a flow whose route the
\* move had changed
C28_Witness ==
    /\ RevertReturns
    /\ \E f \in NocTrafficFlowIds :
          /\ BothEndsMoved(f)
          /\ f \in updated_traffic_flows
          /\ traffic_flow_routes[f] /= traffic_flow_routes_backup[f]
          /\ traffic_flow_routes_backup[f] = RouteInMove(f)

-----------------------------------------------------------------------------
(* moves of blocks that are not NoC routers *)

NonRouterMove ==
    /\ blocks_affected /= << >>
    /\ \A m \in Range(blocks_affected) :
          ~check_if_cluster_block_has_traffic_flows(m.block_num)

EvaluateDeltaStep == phase \in {"moved", "eval"}

RoutesUsagesAndCachesUnchanged ==
    UNCHANGED << traffic_flow_routes, traffic_flow_routes_backup, link_bandwidth_usages,
                 traffic_flow_costs, proposed_traffic_flow_costs,
                 link_congestion_costs, proposed_link_congestion_costs >>

\* C29: find_affected_noc_routers_and_update_noc_costs on a move set of blocks
\* without traffic flows changes no route, backup route, link usage, committed
\* or proposed cost in any of its steps, and returns four delta terms of 0
C29_NonRouterMoveChangesNothing ==
    /\ [][(NonRouterMove /\ EvaluateDeltaStep) => RoutesUsagesAndCachesUnchanged]_vars
    /\ [](phase = "dirty" /\ NonRouterMove => delta_c = ZeroCostTerms)

\* a non-router block has been moved and evaluated after an earlier router move
\* left proposed costs that differ from the committed ones
C29_Witness ==
    /\ phase = "dirty"
    /\ NonRouterMove
    /\ block_locs /= InitialBlockLocs
    /\ \E f \in NocTrafficFlowIds :
          /\ proposed_traffic_flow_costs[f] /= InvalidFlowCost
          /\ proposed_traffic_flow_costs[f] /= traffic_flow_costs[f]

-----------------------------------------------------------------------------
(* the placement audit *)

HandlerStateUnchanged ==
    UNCHANGED << traffic_flow_routes, traffic_flow_routes_backup, link_bandwidth_usages,
                 traffic_flow_costs, proposed_traffic_flow_costs,
                 link_congestion_costs, proposed_link_congestion_costs,
                 affected_traffic_flows, affected_noc_links, block_locs, costs >>

PlacementCheckStep == phase' = "cost_checked"

\* C30: when every route came from the routing algorithm and the caller added
\* each committed delta to its totals, check_noc_placement_costs called between
\* transactions returns 0; whenever it is called it returns a count between
\* 0 and 4 and changes no state of the handler
C30_PlacementCheckPasses ==
    /\ [][PlacementCheckStep => HandlerStateUnchanged]_vars
    /\ [](noc_cost_check.checked =>
             /\ noc_cost_check.error \in 0 .. 4
             /\ (noc_cost_check.called_in = "idle" => noc_cost_check.error = 0))

\* the check has run after a committed and a reverted move, on a placement
\* that differs from the first one and has a congested link
C30_Witness ==
    /\ noc_cost_check.checked
    /\ noc_cost_check.called_in = "idle"
    /\ noc_cost_check.error = 0
    /\ num_moves = MaxMoves
    /\ block_locs /= InitialBlockLocs
    /\ costs.congestion > 0

\* the check has run on a move not yet committed and counted errors
C30_WitnessUncommittedMove ==
    /\ noc_cost_check.checked
    /\ noc_cost_check.called_in = "dirty"
    /\ noc_cost_check.error > 1

-----------------------------------------------------------------------------
(* commit without a move under evaluation *)

CommitInIdleStep == phase = "idle" /\ phase' = "committed_in_idle"

NoSentinelCommitted ==
    /\ \A f \in NocTrafficFlowIds : traffic_flow_costs'[f] /= InvalidFlowCost
    /\ \A l \in NocLinkIds : link_congestion_costs'[l] /= INVALID_NOC_COST_TERM

\* C31: commit_noc_costs called in the IDLE state leaves traffic_flow_costs and
\* link_congestion_costs as they are and copies no invalid sentinel into a
\* committed cost
C31_CommitInIdleIsNoOp ==
    [][CommitInIdleStep => (CommittedCostsUnchanged /\ NoSentinelCommitted)]_vars

-----------------------------------------------------------------------------
(* the move transaction after an aborted proposal *)

\* C32: whenever propose_router_swap returns ABORT, blocks_affected (empty
\* when the proposer is called) holds no moved block the call has added
C32_AbortAddsNoMovedBlock ==
    proposal.create_move = "ABORT" => blocks_affected = << >>

-----------------------------------------------------------------------------
(* flows that meet their latency constraint *)

\* the flows without latency overrun according to the latency kernel
FlowsWithoutKernelOverrun ==
    { f \in NocTrafficFlowIds :
        calculate_traffic_flow_latency_cost(traffic_flow_routes[f], noc_traffic_flows[f])[2] = 0 }

\* C33: get_number_of_traffic_flows_with_latency_cons_met counts exactly the
\* flows whose latency, as calculate_traffic_flow_latency_cost computes it for
\* the model's settings (detailed link and router latencies included), does
\* not exceed the flow's maximum latency
C33_CountMatchesLatencyKernel ==
    latency_cons_met.counted =>
        latency_cons_met.count = Cardinality(FlowsWithoutKernelOverrun)

-----------------------------------------------------------------------------
(* the latency kernel on empty routes *)

\* a cost computation has run on the routes the handler holds
LatencyKernelHasRun ==
    phase \in { "idle", "dirty", "latency_costed", "faulted" }

\* C34: calculate_traffic_flow_latency_cost reads no element a route does not
\* have, for every route the handler holds, the empty route included, with
\* coarse and with detailed router latencies
C34_LatencyKernelReadsWithinRoute ==
    LatencyKernelHasRun =>
        \A f \in NocTrafficFlowIds :
            route_elements_read(traffic_flow_routes[f]) \subseteq DOMAIN traffic_flow_routes[f]

-----------------------------------------------------------------------------
(* the partition tree and what is routed at the same time *)

parent(node) == node \div 2

RECURSIVE IsAncestorOrSelf(_, _)
IsAncestorOrSelf(a, d) ==
    IF d = a THEN TRUE
    ELSE IF d <= root THEN FALSE
    ELSE IsAncestorOrSelf(a, parent(d))

\* one node lies in the subtree of the other
OnOnePath(n, m) == IsAncestorOrSelf(n, m) \/ IsAncestorOrSelf(m, n)

InRouteNet(t) == thread_task[t] /= NoTask /\ thread_task[t].in_route_net

\* every net of the node has been through route_net and no thread is in the
\* node function of the node any more
NodeIsFinished(node) ==
    /\ \A net \in Range(tree.nets[node]) : route_net_log[net] /= << >>
    /\ \A t \in RouterThreads : thread_task[t] = NoTask \/ thread_task[t].node /= node

\* C35: the tasks of the left and right branch of a node are spawned only
\* after every net of the node has been processed, so a net is never routed
\* at the same time as a net of the same node, of an ancestor or of a
\* descendant: nets routed at the same time lie in disjoint subtrees
C35_BranchesSpawnedAfterNodeFinished ==
    /\ \A node \in spawned \ { root } : NodeIsFinished(parent(node))
    /\ \A t, u \in RouterThreads :
          (t /= u /\ InRouteNet(t) /\ InRouteNet(u))
              => ~OnOnePath(thread_task[t].node, thread_task[u].node)

\* a net of a leaf and a net of the sibling of its parent are being routed at
\* the same time
C35_Witness ==
    /\ InRouteNet("caller")
    /\ InRouteNet("worker")
    /\ { thread_task["caller"].node, thread_task["worker"].node } = { right(root), left(left(root)) }

-----------------------------------------------------------------------------
(* route_netlist: join, termination, every net once *)

Failed(flags) == ~flags.success /\ ~flags.retry_with_full_bb

NoNetFailed ==
    \A net \in DOMAIN route_net_log :
        \A i \in DOMAIN route_net_log[net] : ~Failed(route_net_log[net][i])

Occurrences(x, seq) == Cardinality({ i \in DOMAIN seq : seq[i] = x })

\* route_net answered that it has rerouted the net
WasRerouted(net) ==
    \E i \in DOMAIN route_net_log[net] :
        /\ route_net_log[net][i].success
        /\ ~route_net_log[net][i].retry_with_full_bb
        /\ route_net_log[net][i].was_rerouted

RouteNetlistHasReturned == router_pc = "returned"

AllTasksFinished ==
    /\ task_group = {}
    /\ \A t \in RouterThreads : thread_task[t] = NoTask

\* C36: route_netlist returns only when every spawned task has finished, and
\* it returns in every run; when no net fails, every net of every node has
\* been passed to route_net exactly once and every rerouted net is exactly
\* once in the combined rerouted_nets, whatever the interleaving of the tasks
C36_RouteNetlistJoinsAndRoutesEachNetOnce ==
    /\ [](RouteNetlistHasReturned =>
             /\ AllTasksFinished
             /\ NoNetFailed =>
                   \A net \in NetsOf(tree) :
                       /\ Len(route_net_log[net]) = 1
                       /\ Occurrences(net, route_iter_results.rerouted_nets)
                              = IF WasRerouted(net) THEN 1 ELSE 0)
    /\ <>RouteNetlistHasReturned

\* a call has returned for the tree of five nodes with no failed net and
\* with rerouted nets noted by both threads
C36_Witness ==
    /\ RouteNetlistHasReturned
    /\ NoNetFailed
    /\ left(left(root)) \in Nodes(tree)
    /\ results_th["caller"].rerouted_nets /= << >>
    /\ results_th["worker"].rerouted_nets /= << >>
    /\ Len(route_iter_results.rerouted_nets) > 2

-----------------------------------------------------------------------------
(* route_netlist when a net can not be routed *)

SomeNetFailed == ~NoNetFailed

\* the position of the net in the list of its node
PositionIn(net, node) == CHOOSE i \in DOMAIN tree.nets[node] : tree.nets[node][i] = net

\* a net of the node failed
NodeFailed(node) ==
    \E net \in Range(tree.nets[node]) :
        \E i \in DOMAIN route_net_log[net] : Failed(route_net_log[net][i])

\* nets the node function of a failed node must not have reached: the nets
\* after the failed one and the nets of the subtree below the node
NotRoutedAfterFailure(node) ==
    /\ \A net, later \in Range(tree.nets[node]) :
          (/\ \E i \in DOMAIN route_net_log[net] : Failed(route_net_log[net][i])
           /\ PositionIn(later, node) > PositionIn(net, node))
              => route_net_log[later] = << >>
    /\ \A below \in Nodes(tree) \ { node } :
          IsAncestorOrSelf(node, below) =>
              /\ below \notin spawned
              /\ \A net \in Range(tree.nets[below]) : route_net_log[net] = << >>

\* a spawned node has run to its end: all its nets, or its nets up to the
\* one that failed
RanToCompletion(node) ==
    \/ NodeFailed(node)
    \/ \A net \in Range(tree.nets[node]) : Len(route_net_log[net]) = 1

\* C37: the combined result has is_routable = false iff route_net answered,
\* for some net, neither success nor retry_with_full_bb; the node of that net
\* stops there, so its remaining nets and the nets of its subtree are not
\* routed in this call, while every node that has been spawned runs to its end
C37_FailureStopsNodeAndSubtree ==
    RouteNetlistHasReturned =>
        /\ ~route_iter_results.is_routable <=> SomeNetFailed
        /\ \A node \in Nodes(tree) : NodeFailed(node) => NotRoutedAfterFailure(node)
        /\ \A node \in spawned : RanToCompletion(node)

\* the left branch of the root failed at its first net while the right
\* branch, spawned with it, routed both its nets
C37_Witness ==
    /\ RouteNetlistHasReturned
    /\ ~route_iter_results.is_routable
    /\ left(root) \in spawned
    /\ NodeFailed(left(root))
    /\ ~NodeFailed(right(root))
    /\ Len(tree.nets[left(root)]) > 1
    /\ route_net_log[tree.nets[left(root)][2]] = << >>
    /\ \A net \in Range(tree.nets[right(root)]) : Len(route_net_log[net]) = 1

\* C38: find_affected_links_by_flow_reroute returns the symmetric difference
\* of the link sets of the two routes handed over, in whatever order their
\* links are given: every link of one route that is not in the other is in
\* the result exactly once, and no link of both routes is in it.
SymmetricDifference(a, b) == (a \ b) \cup (b \ a)

C38_AffectedLinksAreSymmetricDifference ==
    flow_reroute_links.called =>
        LET prev_route == Range(flow_reroute_links.handed_over.prev_links)
            curr_route == Range(flow_reroute_links.handed_over.curr_links)
        IN  /\ \A l \in SymmetricDifference(prev_route, curr_route) :
                   Occurrences(l, flow_reroute_links.links) = 1
            /\ \A l \in prev_route \cap curr_route :
                   Occurrences(l, flow_reroute_links.links) = 0
            /\ Range(flow_reroute_links.links) \subseteq prev_route \cup curr_route

\* two routes handed over out of link order that share a link and each have
\* a link of their own
C38_Witness ==
    /\ flow_reroute_links.called
    /\ flow_reroute_links.handed_over.prev_links # flow_reroute_links.prev_links
    /\ flow_reroute_links.handed_over.curr_links # flow_reroute_links.curr_links
    /\ Range(flow_reroute_links.prev_links) \cap Range(flow_reroute_links.curr_links) # {}
    /\ Range(flow_reroute_links.prev_links) \ Range(flow_reroute_links.curr_links) # {}
    /\ Range(flow_reroute_links.curr_links) \ Range(flow_reroute_links.prev_links) # {}
    /\ Len(flow_reroute_links.links) = 2

====
